---------------------------- MODULE Spec2Model ----------------------------
(***************************************************************************)
(* Model of the campaign editor's lead import (imadmazood/sao):            *)
(*   - the CSV pipeline shared by UploadLeadsTab.tsx and Campaigns.tsx     *)
(*     (parseCSVForPreview, the column auto-mapping of handleFileSelect,   *)
(*     processCSVWithMapping, the rows built for uploaded_leads);          *)
(*   - the asynchronous handlers of EditCampaign and UploadLeadsTab, one   *)
(*     step per await.                                                     *)
(* Text is a sequence of one-character strings.                            *)
(***************************************************************************)
EXTENDS Integers, Sequences, FiniteSets, TLC

(***************************************************************************)
(* Bounds of the model.                                                    *)
(***************************************************************************)
\* longest text enumerated over the small alphabet
MaxLen == 5
\* most lines of a text assembled from the line pool
MaxLines == 8
\* most headers of a header line assembled from the header pool
MaxHeaders == 2
\* longest text enumerated over the row alphabet
MaxRowLen == 5
\* most manual mapping changes (handleColumnMappingChange) before an upload
MaxEdits == 1
\* most handler invocations (user actions and effects) in one behaviour
MaxTasks == 3

\* the most steps the sequence editor is given
MaxSteps == 3

Null == "null"

\* a nullable value: None, or Some(v)
None == <<>>
Some(v) == <<v>>
The(o) == o[1]

Min(a, b) == IF a < b THEN a ELSE b

(***************************************************************************)
(* Characters and the string primitives of JavaScript the code uses.       *)
(***************************************************************************)
NL == "\n"
COMMA == ","
QUOTE == "\""

\* what String.prototype.trim removes (of the characters the model uses)
WhiteSpace == {" ", "\t", "\r", "\n"}

UpperChars == <<"A","B","C","D","E","F","G","H","I","J","K","L","M",
                "N","O","P","Q","R","S","T","U","V","W","X","Y","Z">>
LowerChars == <<"a","b","c","d","e","f","g","h","i","j","k","l","m",
                "n","o","p","q","r","s","t","u","v","w","x","y","z">>

LowerChar(c) ==
  IF \E i \in 1..Len(UpperChars) : UpperChars[i] = c
  THEN LowerChars[CHOOSE i \in 1..Len(UpperChars) : UpperChars[i] = c]
  ELSE c

\* String.prototype.toLowerCase
ToLowerCase(s) == [i \in 1..Len(s) |-> LowerChar(s[i])]

\* String.prototype.includes
Includes(s, k) ==
  \E i \in 0..(Len(s) - Len(k)) : SubSeq(s, i + 1, i + Len(k)) = k

\* String.prototype.split on a one-character separator
RECURSIVE Split(_, _)
Split(s, sep) ==
  IF \A i \in 1..Len(s) : s[i] # sep
  THEN <<s>>
  ELSE LET i == CHOOSE j \in 1..Len(s) :
                  s[j] = sep /\ \A k \in 1..(j - 1) : s[k] # sep
       IN <<SubSeq(s, 1, i - 1)>> \o Split(SubSeq(s, i + 1, Len(s)), sep)

RECURSIVE TrimStart(_)
TrimStart(s) ==
  IF Len(s) > 0 /\ s[1] \in WhiteSpace THEN TrimStart(Tail(s)) ELSE s

RECURSIVE TrimEnd(_)
TrimEnd(s) ==
  IF Len(s) > 0 /\ s[Len(s)] \in WhiteSpace
  THEN TrimEnd(SubSeq(s, 1, Len(s) - 1))
  ELSE s

\* String.prototype.trim
Trim(s) == TrimEnd(TrimStart(s))

\* s.replace(/"/g, '')
StripQuotes(s) == SelectSeq(s, LAMBDA c : c # QUOTE)

\* Array.prototype.indexOf, 0-based, -1 when absent
IndexOf(xs, x) ==
  IF \E i \in 1..Len(xs) : xs[i] = x
  THEN (CHOOSE i \in 1..Len(xs) : xs[i] = x /\ \A j \in 1..(i - 1) : xs[j] # x) - 1
  ELSE -1

\* Array.prototype.join
RECURSIVE Join(_, _)
Join(xs, sep) ==
  IF Len(xs) = 0 THEN <<>>
  ELSE IF Len(xs) = 1 THEN xs[1]
  ELSE xs[1] \o <<sep>> \o Join(Tail(xs), sep)

(***************************************************************************)
(* parseCSVForPreview                                                      *)
(***************************************************************************)
\* a mutant of the line filter: blank lines are kept
NonBlankLinesKeepBlank(csvText) == Split(csvText, NL)

\* csvText.split('\n').filter(line => line.trim())
NonBlankLines(csvText) ==
  SelectSeq(Split(csvText, NL), LAMBDA line : Trim(line) # <<>>)

\* a mutant of the cell parser: the quotes are kept
ParseCellsKeepQuotes(line) ==
  LET parts == Split(line, COMMA)
  IN [i \in 1..Len(parts) |-> Trim(parts[i])]

\* line.split(',').map(cell => cell.trim().replace(/"/g, ''))
ParseCells(line) ==
  LET parts == Split(line, COMMA)
  IN [i \in 1..Len(parts) |-> StripQuotes(Trim(parts[i]))]

\* the end index of lines.slice(1, 6)
PreviewSliceEnd == 6

\* a mutant of the preview: lines.slice(1, 5)
parseCSVForPreviewShort(csvText) ==
  LET lines == NonBlankLines(csvText)
  IN IF Len(lines) = 0
     THEN [headers |-> <<>>, rows |-> <<>>, totalRows |-> 0]
     ELSE LET shown == SubSeq(lines, 2, Min(PreviewSliceEnd - 1, Len(lines)))
          IN [headers   |-> ParseCells(lines[1]),
              rows      |-> [i \in 1..Len(shown) |-> ParseCells(shown[i])],
              totalRows |-> Len(lines) - 1]

parseCSVForPreview(csvText) ==
  LET lines == NonBlankLines(csvText)
  IN IF Len(lines) = 0
     THEN [headers |-> <<>>, rows |-> <<>>, totalRows |-> 0]
     ELSE LET shown == SubSeq(lines, 2, Min(PreviewSliceEnd, Len(lines)))
          IN [headers   |-> ParseCells(lines[1]),
              rows      |-> [i \in 1..Len(shown) |-> ParseCells(shown[i])],
              totalRows |-> Len(lines) - 1]

(***************************************************************************)
(* DATABASE_COLUMNS and the column auto-mapping of handleFileSelect        *)
(***************************************************************************)
DATABASE_COLUMNS ==
  <<"name", "phone", "email", "company_name", "job_title",
    "source_url", "source_platform">>

DbKeys == {DATABASE_COLUMNS[i] : i \in 1..Len(DATABASE_COLUMNS)}

W_name == <<"n", "a", "m", "e">>
W_full_name == <<"f", "u", "l", "l", "_", "n", "a", "m", "e">>
W_first_name == <<"f", "i", "r", "s", "t", "_", "n", "a", "m", "e">>
W_phone == <<"p", "h", "o", "n", "e">>
W_mobile == <<"m", "o", "b", "i", "l", "e">>
W_number == <<"n", "u", "m", "b", "e", "r">>
W_tel == <<"t", "e", "l">>
W_email == <<"e", "m", "a", "i", "l">>
W_mail == <<"m", "a", "i", "l">>
W_e_mail == <<"e", "-", "m", "a", "i", "l">>
W_company == <<"c", "o", "m", "p", "a", "n", "y">>
W_organization == <<"o", "r", "g", "a", "n", "i", "z", "a", "t", "i", "o", "n">>
W_org == <<"o", "r", "g">>
W_title == <<"t", "i", "t", "l", "e">>
W_position == <<"p", "o", "s", "i", "t", "i", "o", "n">>
W_job == <<"j", "o", "b">>
W_role == <<"r", "o", "l", "e">>
W_url == <<"u", "r", "l">>
W_website == <<"w", "e", "b", "s", "i", "t", "e">>
W_link == <<"l", "i", "n", "k">>
W_platform == <<"p", "l", "a", "t", "f", "o", "r", "m">>
W_source == <<"s", "o", "u", "r", "c", "e">>
W_site == <<"s", "i", "t", "e">>
W_company_name == <<"c", "o", "m", "p", "a", "n", "y", "_", "n", "a", "m", "e">>
W_job_title == <<"j", "o", "b", "_", "t", "i", "t", "l", "e">>
W_source_url == <<"s", "o", "u", "r", "c", "e", "_", "u", "r", "l">>
W_source_platform ==
  <<"s", "o", "u", "r", "c", "e", "_", "p", "l", "a", "t", "f", "o", "r", "m">>

\* the text of dbCol.key
KeyText(key) ==
  CASE key = "name"            -> W_name
    [] key = "phone"           -> W_phone
    [] key = "email"           -> W_email
    [] key = "company_name"    -> W_company_name
    [] key = "job_title"       -> W_job_title
    [] key = "source_url"      -> W_source_url
    [] key = "source_platform" -> W_source_platform

\* the predicate handed to preview.headers.find, for one dbCol
HeaderMatches(key, header) ==
  LET lowerHeader == ToLowerCase(header)
      lowerDbKey  == ToLowerCase(KeyText(key))
  IN IF lowerHeader = lowerDbKey THEN TRUE
     ELSE CASE key = "name" ->
                 \/ Includes(lowerHeader, W_name)
                 \/ Includes(lowerHeader, W_full_name)
                 \/ Includes(lowerHeader, W_first_name)
            [] key = "phone" ->
                 \/ Includes(lowerHeader, W_phone)
                 \/ Includes(lowerHeader, W_mobile)
                 \/ Includes(lowerHeader, W_number)
                 \/ lowerHeader = W_tel
            [] key = "email" ->
                 \/ Includes(lowerHeader, W_email)
                 \/ Includes(lowerHeader, W_mail)
                 \/ lowerHeader = W_e_mail
            [] key = "company_name" ->
                 \/ Includes(lowerHeader, W_company)
                 \/ Includes(lowerHeader, W_organization)
                 \/ Includes(lowerHeader, W_org)
            [] key = "job_title" ->
                 \/ Includes(lowerHeader, W_title)
                 \/ Includes(lowerHeader, W_position)
                 \/ Includes(lowerHeader, W_job)
                 \/ Includes(lowerHeader, W_role)
            [] key = "source_url" ->
                 \/ Includes(lowerHeader, W_url)
                 \/ Includes(lowerHeader, W_website)
                 \/ Includes(lowerHeader, W_link)
            [] key = "source_platform" ->
                 \/ Includes(lowerHeader, W_platform)
                 \/ Includes(lowerHeader, W_source)
                 \/ Includes(lowerHeader, W_site)
            [] OTHER -> FALSE

\* a mutant of the search: the last matching header instead of the first
FindHeaderLast(key, headers) ==
  IF \E i \in 1..Len(headers) : HeaderMatches(key, headers[i])
  THEN CHOOSE i \in 1..Len(headers) :
         /\ HeaderMatches(key, headers[i])
         /\ \A j \in (i + 1)..Len(headers) : ~HeaderMatches(key, headers[j])
  ELSE 0

\* preview.headers.find(...): the position of the first header the predicate
\* accepts, 0 when find returns undefined
FindHeader(key, headers) ==
  IF \E i \in 1..Len(headers) : HeaderMatches(key, headers[i])
  THEN CHOOSE i \in 1..Len(headers) :
         /\ HeaderMatches(key, headers[i])
         /\ \A j \in 1..(i - 1) : ~HeaderMatches(key, headers[j])
  ELSE 0

EmptyMapping == [k \in {} |-> <<>>]

\* autoMapping after DATABASE_COLUMNS.forEach: a key is set when find returned
\* a truthy (non-empty) header
AutoMapping(headers) ==
  LET found == {key \in DbKeys :
                  /\ FindHeader(key, headers) # 0
                  /\ headers[FindHeader(key, headers)] # <<>>}
  IN [key \in found |-> headers[FindHeader(key, headers)]]

\* setColumnMapping(prev => ({...prev, [dbColumn]: csvColumn === 'none' ? '' : csvColumn}))
W_none == <<"n", "o", "n", "e">>

handleColumnMappingChange(prev, dbColumn, csvColumn) ==
  [k \in (DOMAIN prev) \cup {dbColumn} |->
     IF k = dbColumn
     THEN (IF csvColumn = W_none THEN <<>> ELSE csvColumn)
     ELSE prev[k]]

(***************************************************************************)
(* processCSVWithMapping                                                   *)
(***************************************************************************)
\* the lead object built from one line: a key is set when its mapped column
\* is non-empty, is a header, and the line has a non-empty value there
LeadOf(headers, values, columnMapping) ==
  LET set == {dbColumn \in DOMAIN columnMapping :
                /\ columnMapping[dbColumn] # <<>>
                /\ IndexOf(headers, columnMapping[dbColumn]) # -1
                /\ IndexOf(headers, columnMapping[dbColumn]) + 1 <= Len(values)
                /\ values[IndexOf(headers, columnMapping[dbColumn]) + 1] # <<>>}
  IN [dbColumn \in set |->
        values[IndexOf(headers, columnMapping[dbColumn]) + 1]]

\* a mutant of the validity test: the email is not looked at
HasContactNoEmail(lead) ==
  "name" \in DOMAIN lead \/ "phone" \in DOMAIN lead

\* lead.name || lead.phone || lead.email
HasContact(lead) ==
  \/ ("name" \in DOMAIN lead /\ lead["name"] # <<>>)
  \/ ("phone" \in DOMAIN lead /\ lead["phone"] # <<>>)
  \/ ("email" \in DOMAIN lead /\ lead["email"] # <<>>)

\* an entry of an errors list: its text and, for a row error, the row number
\* the text starts with ("Row ${i + 1}: ...")
ErrorEntry(row, text) == [row |-> row, text |-> text]

RowError(row) == ErrorEntry(row, "Missing required data (name, phone, or email)")

\* the loop  for (let i = 1; i < lines.length; i++)  from index i (0-based)
RECURSIVE ProcessLines(_, _, _, _, _)
ProcessLines(lines, headers, columnMapping, i, acc) ==
  IF i >= Len(lines) THEN acc
  ELSE LET values == ParseCells(lines[i + 1])
           lead   == LeadOf(headers, values, columnMapping)
       IN ProcessLines(lines, headers, columnMapping, i + 1,
            IF HasContact(lead)
            THEN [acc EXCEPT !.leads = Append(@, lead)]
            ELSE [acc EXCEPT !.errors = Append(@, RowError(i + 1))])

processCSVWithMapping(csvText, columnMapping) ==
  LET lines == NonBlankLines(csvText)
  IN IF Len(lines) < 2
     THEN [leads |-> <<>>, errors |-> <<>>]
     ELSE ProcessLines(lines, ParseCells(lines[1]), columnMapping, 1,
                       [leads |-> <<>>, errors |-> <<>>])

\* lead.key || ''
OrEmpty(lead, key) == IF key \in DOMAIN lead THEN lead[key] ELSE <<>>

\* leads.map(lead => ({user_id, campaign_id, name: lead.name || '', ...}))
leadsToInsert(leads, userId, campaignId) ==
  [i \in 1..Len(leads) |->
     [user_id         |-> userId,
      campaign_id     |-> campaignId,
      name            |-> OrEmpty(leads[i], "name"),
      phone           |-> OrEmpty(leads[i], "phone"),
      email           |-> OrEmpty(leads[i], "email"),
      company_name    |-> OrEmpty(leads[i], "company_name"),
      job_title       |-> OrEmpty(leads[i], "job_title"),
      source_url      |-> OrEmpty(leads[i], "source_url"),
      source_platform |-> OrEmpty(leads[i], "source_platform"),
      status          |-> "pending"]]

(***************************************************************************)
(* The inputs: CSV texts.                                                  *)
(***************************************************************************)
SmallAlphabet == {"a", COMMA, QUOTE, " ", NL}

\* every text over the small alphabet, up to MaxLen characters
SmallTexts == UNION {[1..n -> SmallAlphabet] : n \in 0..MaxLen}

\* a data line and a blank line
LinePool == {<<"a">>, <<" ">>}

\* texts of up to MaxLines lines of the pool
LineTexts ==
  {Join(ls, NL) : ls \in UNION {[1..n -> LinePool] : n \in 1..MaxLines}}

HeaderPool ==
  { <<"N", "a", "m", "e">>,
    <<"P", "h", "o", "n", "e">>,
    <<"T", "e", "l">>,
    <<"T", "e", "l", "e">>,
    <<"E", "-", "m", "a", "i", "l">>,
    <<"e", "m", "a", "i", "l">>,
    <<"O", "r", "g">>,
    <<"c", "o", "m", "p", "a", "n", "y", "_", "n", "a", "m", "e">>,
    <<"T", "i", "t", "l", "e">>,
    <<"W", "e", "b", "s", "i", "t", "e">>,
    <<"s", "o", "u", "r", "c", "e", "_", "u", "r", "l">>,
    <<"i", "d">>,
    <<>> }

\* a header line of up to MaxHeaders headers of the pool and one data line
HeaderTexts ==
  {Join(hs, COMMA) \o <<NL>> \o Join([i \in 1..Len(hs) |-> <<"v">>], COMMA) :
     hs \in UNION {[1..n -> HeaderPool] : n \in 1..MaxHeaders}}

\* Name,Email / Ann, / ,b@x / , / "Doe, J",d@x  (CRLF line ends, a blank line)
FileContacts ==
  <<"N","a","m","e",",","E","m","a","i","l","\r","\n",
    "A","n","n",",","\r","\n",
    ",","b","@","x","\r","\n",
    ",","\r","\n",
    "\r","\n",
    "\"","D","o","e",","," ","J","\"",",","d","@","x","\r","\n">>

\* id,Title / 1,CEO / 2,CTO : no column for name, phone or email
FileNoContact ==
  <<"i","d",",","T","i","t","l","e","\n",
    "1",",","C","E","O","\n",
    "2",",","C","T","O">>

\* Tel / 555 : one lead
FileOneLead == <<"T","e","l","\n","5","5","5">>

\* a header line only
FileHeaderOnly == <<"N","a","m","e",",","T","e","l","\n">>

Files == {FileContacts, FileNoContact, FileOneLead, FileHeaderOnly}

CsvTexts == SmallTexts \cup LineTexts \cup HeaderTexts \cup Files

RowAlphabet == {"a", COMMA, QUOTE, NL}

\* every text over the row alphabet, up to MaxRowLen characters, and the files
RowTexts == UNION {[1..n -> RowAlphabet] : n \in 0..MaxRowLen} \cup Files

\* a header of no file
ForeignHeader == <<"z">>

\* the keys whose mapping the user changes by hand in the model
EditKeys == {"name", "email"}

\* a mapping left over from another file: every field mapped to a foreign header
StaleMapping == [k \in DbKeys |-> ForeignHeader]

(***************************************************************************)
(* The state.                                                              *)
(***************************************************************************)
VARIABLES
  \* the CSV pipeline run on one text: select, map, upload
  csvText,        \* the text of the selected file
  stage,          \* "file" | "preview" | "uploaded" | "idle"
  preview,        \* parseCSVForPreview(csvText), Null before
  autoMapping,    \* the suggestion computed on selection, Null before
  columnMapping,  \* the mapping in force
  edits,          \* manual mapping changes made
  processed,      \* processCSVWithMapping's result, Null before
  inserted        \* the rows handed to insert, none before

csvVars ==
  <<csvText, stage, preview, autoMapping, columnMapping, edits, processed,
    inserted>>

VARIABLES
  \* the components and their environment
  user,            \* useAuth().user: Null or a user id
  route,           \* "edit" (the editor is shown) | "/campaigns"
  db,              \* the backend's tables
  requests,        \* every request sent, backend and webhook, in order
  console,         \* the console.error entries
  tasks,           \* the handler invocations, running and finished
  editCampaign,    \* the state of EditCampaign
  uploadLeadsTab   \* the state of UploadLeadsTab

appVars ==
  <<user, route, db, requests, console, tasks, editCampaign, uploadLeadsTab>>

VARIABLES
  \* the other two components
  campaignsPage,   \* the state of Campaigns (the list page)
  sequenceBuilder  \* the state of SequenceBuilder

pageVars == <<campaignsPage, sequenceBuilder>>

vars == <<csvVars, appVars, pageVars>>

U1 == "u1"
C1 == "c1"

(***************************************************************************)
(* The initial state of the components and of the backend.                 *)
(***************************************************************************)
\* the campaigns row the editor is opened on (useParams id), a draft of U1
CampaignRow ==
  [id |-> C1, user_id |-> U1, offer |-> "offer", calendar_url |-> "",
   goal |-> "", status |-> "draft"]

DbInit ==
  [campaigns          |-> <<CampaignRow>>,
   uploaded_leads     |-> <<>>,
   campaign_sequences |-> <<>>,
   next_id            |-> 1]

\* the useState initial values of EditCampaign
EditCampaignInit ==
  [campaign      |-> None,
   loading       |-> TRUE,
   saving        |-> FALSE,
   publishing    |-> FALSE,
   activeTab     |-> "analytics",
   csvFile       |-> None,
   uploadLoading |-> FALSE,
   uploadResult  |-> None,
   csvPreview    |-> None,
   columnMapping |-> EmptyMapping,
   showPreview   |-> FALSE,
   formData      |-> [offer |-> "", calendar_url |-> "", goal |-> "",
                      status |-> "draft"]]

\* the useState initial values of UploadLeadsTab
UploadLeadsTabInit ==
  [existingLeads |-> <<>>,
   csvFile       |-> None,
   uploadLoading |-> FALSE,
   uploadResult  |-> None,
   csvPreview    |-> None,
   columnMapping |-> EmptyMapping,
   showPreview   |-> FALSE,
   loading       |-> TRUE]

\* the create form's defaults
FormDefaults ==
  [offer |-> "", calendar_url |-> "", goal |-> "", status |-> "draft"]

\* the useState initial values of Campaigns
CampaignsInit ==
  [campaigns      |-> <<>>,
   loading        |-> TRUE,
   showCreateForm |-> FALSE,
   formData       |-> FormDefaults]

\* a step of the editor; the id and the conditions a loaded step carries are
\* never read or edited and are left out
Step(n, type, content, delay) ==
  [step_number |-> n, message_type |-> type, message_content |-> content,
   delay_hours |-> delay]

\* the useState initial values of SequenceBuilder
SequenceBuilderInit ==
  [steps   |-> <<Step(1, "call", "", 0)>>,
   loading |-> TRUE,
   saving  |-> FALSE]

\* the components are not running
AppIdle ==
  /\ user = Null
  /\ route = "edit"
  /\ db = DbInit
  /\ requests = <<>>
  /\ console = <<>>
  /\ tasks = <<>>
  /\ editCampaign = EditCampaignInit
  /\ uploadLeadsTab = UploadLeadsTabInit
  /\ campaignsPage = CampaignsInit
  /\ sequenceBuilder = SequenceBuilderInit

\* the pipeline harness is not running
CsvIdle ==
  /\ csvText = <<>>
  /\ stage = "idle"
  /\ preview = Null
  /\ autoMapping = Null
  /\ columnMapping = EmptyMapping
  /\ edits = 0
  /\ processed = Null
  /\ inserted = <<>>

(***************************************************************************)
(* The CSV pipeline, synchronously, on every text of CsvTexts.             *)
(***************************************************************************)
InitPipeline(texts) ==
  /\ csvText \in texts
  /\ stage = "file"
  /\ preview = Null
  /\ autoMapping = Null
  /\ columnMapping \in {EmptyMapping, StaleMapping}
  /\ edits = 0
  /\ processed = Null
  /\ inserted = <<>>
  /\ AppIdle

\* handleFileSelect once file.text() has resolved
CsvSelect ==
  /\ stage = "file"
  /\ stage' = "preview"
  /\ preview' = parseCSVForPreview(csvText)
  /\ autoMapping' = AutoMapping(preview'.headers)
  /\ columnMapping' = autoMapping'
  /\ UNCHANGED <<csvText, edits, processed, inserted, appVars, pageVars>>

\* the select of one field is changed to a header, to none, or holds a header
\* of another file
CsvChangeMapping ==
  /\ stage = "preview"
  /\ edits < MaxEdits
  /\ \E dbColumn \in EditKeys :
       \E csvColumn \in {preview.headers[i] : i \in 1..Len(preview.headers)}
                          \cup {W_none, ForeignHeader} :
         columnMapping' =
           handleColumnMappingChange(columnMapping, dbColumn, csvColumn)
  /\ edits' = edits + 1
  /\ UNCHANGED <<csvText, stage, preview, autoMapping, processed, inserted,
                 appVars, pageVars>>

\* handleFileUpload up to the insert
CsvUpload ==
  /\ stage = "preview"
  /\ stage' = "uploaded"
  /\ processed' = processCSVWithMapping(csvText, columnMapping)
  /\ inserted' = IF Len(processed'.leads) = 0 THEN <<>>
                 ELSE leadsToInsert(processed'.leads, U1, C1)
  /\ UNCHANGED <<csvText, preview, autoMapping, columnMapping, edits, appVars, pageVars>>

\* selection and upload with the suggested mapping, on every text of CsvTexts
InitCsv == InitPipeline(CsvTexts)

NextCsv == CsvSelect \/ CsvUpload

SpecCsv == InitCsv /\ [][NextCsv]_vars

\* selection, manual mapping changes and upload, on every text of RowTexts
InitRows == InitPipeline(RowTexts)

NextRows == CsvSelect \/ CsvChangeMapping \/ CsvUpload

SpecRows == InitRows /\ [][NextRows]_vars

(***************************************************************************)
(* Handler invocations.  A handler runs to its next await in one step; the *)
(* values it closes over (user, campaign, csvFile, columnMapping of the    *)
(* render it was called from) and its local variables are kept in its     *)
(* task.  Finished tasks stay in the list with pc = "done".                *)
(***************************************************************************)
Task(handler, pc) ==
  [handler        |-> handler,
   pc             |-> pc,
   user           |-> user,
   campaign       |-> None,
   csvFile        |-> None,
   columnMapping  |-> EmptyMapping,
   leadId         |-> None,
   formData       |-> None,
   deleteId       |-> None,
   steps          |-> <<>>,
   stored         |-> <<>>,
   data           |-> None,
   leads          |-> <<>>,
   errors         |-> <<>>,
   dbError        |-> "unset",
   webhookSuccess |-> FALSE,
   webhookError   |-> Null,
   response       |-> Null,
   outcome        |-> "running"]

\* a request sent by task number by
Request(by, kind, body) == [by |-> by, kind |-> kind, body |-> body]

\* an UploadResult: leadsCount is optional, errors absent is the empty list
Result(success, message, leadsCount, errors) ==
  Some([success |-> success, message |-> message, leadsCount |-> leadsCount,
        errors |-> errors])

Running(i, handler, pc) ==
  /\ i \in 1..Len(tasks)
  /\ tasks[i].handler = handler
  /\ tasks[i].pc = pc

Finish(i, outcome) ==
  [tasks EXCEPT ![i].pc = "done", ![i].outcome = outcome]

\* the outcomes of an HTTP request: response.ok, a response that is not ok,
\* fetch rejecting
HttpOutcomes == {"ok", "status", "exception"}

(***************************************************************************)
(* The file handlers EditCampaign and UploadLeadsTab both define, on the   *)
(* state fields both hold.                                                 *)
(***************************************************************************)
\* handleFileSelect to its await
SelectFile(st, file) ==
  [st EXCEPT !.csvFile = Some(file), !.uploadResult = None,
             !.showPreview = FALSE]

\* handleFileSelect after file.text() resolved
SelectFileText(st, text) ==
  [st EXCEPT !.csvPreview = Some(parseCSVForPreview(text)),
             !.columnMapping = AutoMapping(parseCSVForPreview(text).headers),
             !.showPreview = TRUE]

\* handleFileSelect's catch
SelectFileError(st) ==
  [st EXCEPT !.uploadResult =
     Result(FALSE, "Error reading CSV file. Please check the file format.",
            None,
            <<ErrorEntry(0, "Make sure the file is a valid CSV with comma-separated values")>>)]

\* resetUpload
ResetUpload(st) ==
  [st EXCEPT !.csvFile = None, !.csvPreview = None, !.showPreview = FALSE,
             !.columnMapping = EmptyMapping, !.uploadResult = None]

\* a mutant of the reset: the file stays selected
ResetFormKeepFile(st) ==
  [st EXCEPT !.csvPreview = None, !.showPreview = FALSE,
             !.columnMapping = EmptyMapping]

\* the reset after a successful upload
ResetForm(st) ==
  [st EXCEPT !.csvFile = None, !.csvPreview = None, !.showPreview = FALSE,
             !.columnMapping = EmptyMapping]

\* the result set when the CSV yields no lead
NoLeadsResult(errors) ==
  Result(FALSE, "No valid leads found in CSV file.", None,
         <<ErrorEntry(0, "Please ensure at least one row has name, phone, or email data")>>
           \o errors)

(***************************************************************************)
(* EditCampaign                                                            *)
(***************************************************************************)
EditMounted == route = "edit"

\* the editor is past its loading and not-found screens
EditRendered ==
  /\ route = "edit"
  /\ ~editCampaign.loading
  /\ editCampaign.campaign # None

\* the user becomes available: the effect on [id, user] calls fetchCampaign
E_useEffect ==
  /\ EditMounted
  /\ user = Null
  /\ Len(tasks) < MaxTasks
  /\ user' = U1
  /\ tasks' = Append(tasks, [Task("EditCampaign.fetchCampaign", "select")
                               EXCEPT !.user = U1])
  /\ requests' = Append(requests,
       Request(Len(tasks) + 1, "select_campaign", [id |-> C1, user_id |-> U1]))
  /\ UNCHANGED <<csvVars, pageVars, route, db, console, editCampaign, uploadLeadsTab>>

\* the campaigns row .eq('id', id).eq('user_id', user.id).single() returns
CampaignOf(id, userId) ==
  SelectSeq(db.campaigns, LAMBDA c : c.id = id /\ c.user_id = userId)

\* fetchCampaign after the select returned
E_fetchCampaign_response(i) ==
  /\ EditMounted
  /\ Running(i, "EditCampaign.fetchCampaign", "select")
  /\ \E ok \in BOOLEAN :
       IF ok /\ Len(CampaignOf(C1, tasks[i].user)) = 1
       THEN LET data == CampaignOf(C1, tasks[i].user)[1]
            IN /\ editCampaign' =
                    [editCampaign EXCEPT
                       !.campaign = Some(data),
                       !.formData = [offer        |-> data.offer,
                                     calendar_url |-> data.calendar_url,
                                     goal         |-> data.goal,
                                     status       |-> data.status],
                       !.loading = FALSE]
               /\ tasks' = Finish(i, "ok")
               /\ UNCHANGED <<route, console>>
       ELSE /\ console' = Append(console, "Error fetching campaign:")
            /\ route' = "/campaigns"
            /\ editCampaign' = [editCampaign EXCEPT !.loading = FALSE]
            /\ tasks' = Finish(i, "db_error")
  /\ UNCHANGED <<csvVars, pageVars, user, db, requests, uploadLeadsTab>>

\* the tabs the model switches between: 'leads', 'details' and 'training'
\* show no control bound to a handler of EditCampaign, like 'analytics'
Tabs == {"analytics", "schedule"}

E_setActiveTab ==
  /\ EditRendered
  /\ \E tab \in Tabs \ {editCampaign.activeTab} :
       editCampaign' = [editCampaign EXCEPT !.activeTab = tab]
  /\ UNCHANGED <<csvVars, pageVars, user, route, db, requests, console, tasks, uploadLeadsTab>>

E_clearUploadResult ==
  /\ EditRendered
  /\ editCampaign.uploadResult # None
  /\ editCampaign' = [editCampaign EXCEPT !.uploadResult = None]
  /\ UNCHANGED <<csvVars, pageVars, user, route, db, requests, console, tasks, uploadLeadsTab>>

\* triggerChannelsEngine to its await: the POST is sent
E_triggerChannelsEngine ==
  /\ EditRendered
  /\ editCampaign.activeTab = "schedule"
  /\ Len(tasks) < MaxTasks
  /\ editCampaign.campaign # None /\ user # Null
  /\ tasks' = Append(tasks,
       [Task("EditCampaign.triggerChannelsEngine", "fetch")
          EXCEPT !.campaign = editCampaign.campaign])
  /\ requests' = Append(requests,
       Request(Len(tasks) + 1, "post_channels_engine",
               [user_id |-> user, campaign_id |-> The(editCampaign.campaign).id,
                trigger_type |-> "manual"]))
  /\ UNCHANGED <<csvVars, pageVars, user, route, db, console, editCampaign, uploadLeadsTab>>

\* a mutant of the response handling: response.ok is not looked at
TriggerResultAnyResponse(response) ==
  IF response # "exception"
  THEN Result(TRUE, "Channels engine triggered successfully!", None, <<>>)
  ELSE Result(FALSE, "Failed to trigger channels engine. Please try again.",
              None, <<>>)

\* the result triggerChannelsEngine sets for an outcome of its POST
TriggerResult(response) ==
  IF response = "ok"
  THEN Result(TRUE, "Channels engine triggered successfully!", None, <<>>)
  ELSE Result(FALSE, "Failed to trigger channels engine. Please try again.",
              None, <<>>)

\* triggerChannelsEngine after the POST returned or failed
E_triggerChannelsEngine_response(i) ==
  /\ EditMounted
  /\ Running(i, "EditCampaign.triggerChannelsEngine", "fetch")
  /\ \E response \in HttpOutcomes :
       /\ editCampaign' =
            [editCampaign EXCEPT !.uploadResult = TriggerResult(response)]
       /\ tasks' = [Finish(i, response) EXCEPT ![i].response = response]
  /\ UNCHANGED <<csvVars, pageVars, user, route, db, requests, console, uploadLeadsTab>>

\* the files the components select
AppFiles == {FileContacts, FileNoContact}

\* the field whose select the user changes in the components
AppEditKeys == {"email"}

\* handleFileSelect to its await (file.text())
E_handleFileSelect ==
  /\ EditMounted
  /\ Len(tasks) < MaxTasks
  /\ \E file \in AppFiles :
       /\ editCampaign' = SelectFile(editCampaign, file)
       /\ tasks' = Append(tasks, [Task("EditCampaign.handleFileSelect", "text")
                                    EXCEPT !.csvFile = Some(file)])
  /\ UNCHANGED <<csvVars, pageVars, user, route, db, requests, console, uploadLeadsTab>>

\* handleFileSelect after file.text() resolved or rejected
E_handleFileSelect_text(i) ==
  /\ EditMounted
  /\ Running(i, "EditCampaign.handleFileSelect", "text")
  /\ \E readOk \in BOOLEAN :
       IF readOk
       THEN /\ editCampaign' =
                 SelectFileText(editCampaign, The(tasks[i].csvFile))
            /\ tasks' = Finish(i, "ok")
            /\ UNCHANGED console
       ELSE /\ editCampaign' = SelectFileError(editCampaign)
            /\ console' = Append(console, "Error parsing CSV:")
            /\ tasks' = Finish(i, "read_error")
  /\ UNCHANGED <<csvVars, pageVars, user, route, db, requests, uploadLeadsTab>>

\* the options of a mapping select: '' (Select CSV column...) and the
\* preview's headers
MappingOptions(st) ==
  {The(st.csvPreview).headers[k] :
     k \in 1..Len(The(st.csvPreview).headers)} \cup {<<>>}

E_handleColumnMappingChange ==
  /\ EditMounted
  /\ editCampaign.showPreview
  /\ editCampaign.csvPreview # None
  /\ \E dbColumn \in AppEditKeys :
       \E csvColumn \in MappingOptions(editCampaign) :
         editCampaign' =
           [editCampaign EXCEPT !.columnMapping =
              handleColumnMappingChange(@, dbColumn, csvColumn)]
  /\ UNCHANGED <<csvVars, pageVars, user, route, db, requests, console, tasks, uploadLeadsTab>>

E_resetUpload ==
  /\ EditMounted
  /\ editCampaign.showPreview
  /\ editCampaign' = ResetUpload(editCampaign)
  /\ UNCHANGED <<csvVars, pageVars, user, route, db, requests, console, tasks, uploadLeadsTab>>

\* handleFileUpload to its first await (csvFile.text())
E_handleFileUpload ==
  /\ EditMounted
  /\ Len(tasks) < MaxTasks
  /\ editCampaign.csvFile # None /\ user # Null /\ editCampaign.campaign # None
  /\ editCampaign' =
       [editCampaign EXCEPT !.uploadLoading = TRUE, !.uploadResult = None]
  /\ tasks' = Append(tasks,
       [Task("EditCampaign.handleFileUpload", "text")
          EXCEPT !.campaign = editCampaign.campaign,
                 !.csvFile = editCampaign.csvFile,
                 !.columnMapping = editCampaign.columnMapping])
  /\ UNCHANGED <<csvVars, pageVars, user, route, db, requests, console, uploadLeadsTab>>

\* the result handleFileUpload's catch sets
UploadFailedResult(message, detail) ==
  Result(FALSE, message, None, <<ErrorEntry(0, detail)>>)

\* handleFileUpload from the text to the insert request
E_handleFileUpload_text(i) ==
  /\ EditMounted
  /\ Running(i, "EditCampaign.handleFileUpload", "text")
  /\ \E readOk \in BOOLEAN :
       LET t == tasks[i]
           r == processCSVWithMapping(The(t.csvFile), t.columnMapping)
       IN IF ~readOk
          THEN /\ console' = Append(console, "Error uploading CSV:")
               /\ editCampaign' =
                    [editCampaign EXCEPT
                       !.uploadResult =
                          UploadFailedResult("Failed to upload leads to database.",
                                             "read error"),
                       !.uploadLoading = FALSE]
               /\ tasks' = Finish(i, "read_error")
               /\ UNCHANGED requests
          ELSE IF Len(r.leads) = 0
          THEN /\ editCampaign' =
                    [editCampaign EXCEPT
                       !.uploadResult = NoLeadsResult(r.errors),
                       !.uploadLoading = FALSE]
               /\ tasks' = [Finish(i, "no_leads") EXCEPT ![i].errors = r.errors]
               /\ UNCHANGED <<console, requests>>
          ELSE /\ requests' = Append(requests,
                    Request(i, "insert_uploaded_leads",
                            leadsToInsert(r.leads, t.user, The(t.campaign).id)))
               /\ tasks' = [tasks EXCEPT ![i].pc = "insert",
                                         ![i].leads = r.leads,
                                         ![i].errors = r.errors]
               /\ UNCHANGED <<console, editCampaign>>
  /\ UNCHANGED <<csvVars, pageVars, user, route, db, uploadLeadsTab>>

\* the backend stores the rows of an insert, giving each an id
InsertLeads(d, rows) ==
  [d EXCEPT
     !.uploaded_leads =
        @ \o [k \in 1..Len(rows) |-> ("id" :> (d.next_id + k - 1)) @@ rows[k]],
     !.next_id = @ + Len(rows)]

\* the start-campaign POST: user_id, campaign and csv in a FormData
StartCampaignRequest(i) ==
  Request(i, "post_start_campaign",
          [user_id |-> tasks[i].user, campaign |-> The(tasks[i].campaign),
           csv |-> The(tasks[i].csvFile)])

\* the step without the check of dbError: the POST follows a failed insert too
E_handleFileUpload_insertNoCheck(i) ==
  /\ EditMounted
  /\ Running(i, "EditCampaign.handleFileUpload", "insert")
  /\ \E ok \in BOOLEAN :
       /\ db' = IF ok
                THEN InsertLeads(db,
                       leadsToInsert(tasks[i].leads, tasks[i].user,
                                     The(tasks[i].campaign).id))
                ELSE db
       /\ requests' = Append(requests, StartCampaignRequest(i))
       /\ tasks' = [tasks EXCEPT ![i].pc = "webhook",
                                 ![i].dbError = IF ok THEN Null ELSE "error"]
  /\ UNCHANGED <<csvVars, pageVars, user, route, console, editCampaign, uploadLeadsTab>>

\* handleFileUpload after the insert returned: the catch, or the webhook POST
E_handleFileUpload_insert(i) ==
  /\ EditMounted
  /\ Running(i, "EditCampaign.handleFileUpload", "insert")
  /\ \E ok \in BOOLEAN :
       IF ok
       THEN /\ db' = InsertLeads(db,
                       leadsToInsert(tasks[i].leads, tasks[i].user,
                                     The(tasks[i].campaign).id))
            /\ requests' = Append(requests, StartCampaignRequest(i))
            /\ tasks' = [tasks EXCEPT ![i].pc = "webhook", ![i].dbError = Null]
            /\ UNCHANGED <<console, editCampaign>>
       ELSE /\ console' = Append(console, "Error uploading CSV:")
            /\ editCampaign' =
                 [editCampaign EXCEPT
                    !.uploadResult =
                       UploadFailedResult("Failed to upload leads to database.",
                                          "Database error: "),
                    !.uploadLoading = FALSE]
            /\ tasks' = [Finish(i, "db_error") EXCEPT ![i].dbError = "error"]
            /\ UNCHANGED <<db, requests>>
  /\ UNCHANGED <<csvVars, pageVars, user, route, uploadLeadsTab>>

\* webhookError for an outcome of the POST
WebhookError(response) ==
  CASE response = "ok"        -> Null
    [] response = "status"    -> "Webhook failed with status: "
    [] response = "exception" -> "Webhook error: "

\* a mutant of the result: a webhook failure fails the upload
UploadedResultStrict(n, response) ==
  Result(response = "ok", "Successfully uploaded leads to the database!",
         Some(n),
         IF response = "ok" THEN <<>>
         ELSE <<ErrorEntry(0, WebhookError(response))>>)

\* the result handleFileUpload sets after the webhook attempt
UploadedResult(n, response) ==
  Result(TRUE, "Successfully uploaded leads to the database!", Some(n),
         IF response = "ok" THEN <<>>
         ELSE <<ErrorEntry(0, "Note: Leads saved to database successfully, but automation webhook failed."),
                ErrorEntry(0, WebhookError(response))>>)

\* a mutant of the webhook step: a failed POST is sent once more
E_handleFileUpload_webhookRetry(i) ==
  /\ EditMounted
  /\ Running(i, "EditCampaign.handleFileUpload", "webhook")
  /\ \E response \in HttpOutcomes :
       IF response # "ok" /\ tasks[i].webhookError = Null
       THEN /\ requests' = Append(requests, StartCampaignRequest(i))
            /\ tasks' = [tasks EXCEPT ![i].webhookError = WebhookError(response)]
            /\ UNCHANGED editCampaign
       ELSE /\ editCampaign' =
                 [ResetForm(editCampaign) EXCEPT
                    !.uploadResult = UploadedResult(Len(tasks[i].leads), response),
                    !.uploadLoading = FALSE]
            /\ tasks' = [Finish(i, "uploaded") EXCEPT
                           ![i].response = response,
                           ![i].webhookSuccess = (response = "ok"),
                           ![i].webhookError = WebhookError(response)]
            /\ UNCHANGED requests
  /\ UNCHANGED <<csvVars, pageVars, user, route, db, console, uploadLeadsTab>>

\* handleFileUpload after the webhook POST returned or failed
E_handleFileUpload_webhook(i) ==
  /\ EditMounted
  /\ Running(i, "EditCampaign.handleFileUpload", "webhook")
  /\ \E response \in HttpOutcomes :
       /\ editCampaign' =
            [ResetForm(editCampaign) EXCEPT
               !.uploadResult = UploadedResult(Len(tasks[i].leads), response),
               !.uploadLoading = FALSE]
       /\ tasks' = [Finish(i, "uploaded") EXCEPT
                      ![i].response = response,
                      ![i].webhookSuccess = (response = "ok"),
                      ![i].webhookError = WebhookError(response)]
  /\ UNCHANGED <<csvVars, pageVars, user, route, db, requests, console, uploadLeadsTab>>

\* EditCampaign with every handler it defines; handleFileSelect,
\* handleColumnMappingChange, handleFileUpload and resetUpload are bound to
\* no element of the editor's JSX and are called here as functions
InitEdit == CsvIdle /\ AppIdle

NextEdit ==
  \/ E_useEffect
  \/ E_setActiveTab
  \/ E_clearUploadResult
  \/ E_triggerChannelsEngine
  \/ E_handleFileSelect
  \/ E_handleColumnMappingChange
  \/ E_resetUpload
  \/ E_handleFileUpload
  \/ \E i \in 1..Len(tasks) : E_fetchCampaign_response(i)
  \/ \E i \in 1..Len(tasks) : E_triggerChannelsEngine_response(i)
  \/ \E i \in 1..Len(tasks) : E_handleFileSelect_text(i)
  \/ \E i \in 1..Len(tasks) : E_handleFileUpload_text(i)
  \/ \E i \in 1..Len(tasks) : E_handleFileUpload_insert(i)
  \/ \E i \in 1..Len(tasks) : E_handleFileUpload_webhook(i)

SpecEdit == InitEdit /\ [][NextEdit]_vars

(***************************************************************************)
(* EditCampaign: the details form, Save Changes and Publish.               *)
(***************************************************************************)
\* the tabs this part switches between: the form is on 'details'
SaveTabs == {"analytics", "details"}

\* the values of the status select the model chooses
StatusInputs == {"draft", "active"}

S_setActiveTab ==
  /\ EditRendered
  /\ \E tab \in SaveTabs \ {editCampaign.activeTab} :
       editCampaign' = [editCampaign EXCEPT !.activeTab = tab]
  /\ UNCHANGED <<csvVars, pageVars, user, route, db, requests, console, tasks, uploadLeadsTab>>

\* handleInputChange of the status select
S_handleInputChange ==
  /\ EditRendered
  /\ editCampaign.activeTab = "details"
  /\ \E value \in StatusInputs \ {editCampaign.formData.status} :
       editCampaign' = [editCampaign EXCEPT !.formData.status = value]
  /\ UNCHANGED <<csvVars, pageVars, user, route, db, requests, console, tasks, uploadLeadsTab>>

\* update(values).eq('id', id).eq('user_id', userId)
UpdateCampaign(d, id, userId, values) ==
  [d EXCEPT !.campaigns =
     [k \in 1..Len(d.campaigns) |->
        IF d.campaigns[k].id = id /\ d.campaigns[k].user_id = userId
        THEN [f \in DOMAIN d.campaigns[k] |->
                IF f \in DOMAIN values THEN values[f] ELSE d.campaigns[k][f]]
        ELSE d.campaigns[k]]]

\* handleSubmit to its await: the update is sent
S_handleSubmit ==
  /\ EditRendered
  /\ ~editCampaign.saving
  /\ Len(tasks) < MaxTasks
  /\ user # Null
  /\ editCampaign' = [editCampaign EXCEPT !.saving = TRUE]
  /\ tasks' = Append(tasks,
       [Task("EditCampaign.handleSubmit", "update")
          EXCEPT !.formData = Some(editCampaign.formData)])
  /\ requests' = Append(requests,
       Request(Len(tasks) + 1, "update_campaign",
               [id |-> C1, user_id |-> user, values |-> editCampaign.formData]))
  /\ UNCHANGED <<csvVars, pageVars, user, route, db, console, uploadLeadsTab>>

\* handleSubmit after the update returned
S_handleSubmit_response(i) ==
  /\ EditMounted
  /\ Running(i, "EditCampaign.handleSubmit", "update")
  /\ \E ok \in BOOLEAN :
       IF ok
       THEN /\ db' = UpdateCampaign(db, C1, tasks[i].user, The(tasks[i].formData))
            /\ editCampaign' =
                 [editCampaign EXCEPT
                    !.uploadResult =
                       Result(TRUE, "Campaign updated successfully!", None, <<>>),
                    !.saving = FALSE]
            /\ tasks' = Finish(i, "saved")
            /\ UNCHANGED console
       ELSE /\ console' = Append(console, "Error updating campaign:")
            /\ editCampaign' =
                 [editCampaign EXCEPT
                    !.uploadResult =
                       Result(FALSE, "Error updating campaign. Please try again.",
                              None, <<>>),
                    !.saving = FALSE]
            /\ tasks' = Finish(i, "db_error")
            /\ UNCHANGED db
  /\ UNCHANGED <<csvVars, pageVars, user, route, requests, uploadLeadsTab>>

\* handlePublish to its await; the button is rendered for a draft
S_handlePublish ==
  /\ EditRendered
  /\ The(editCampaign.campaign).status = "draft"
  /\ ~editCampaign.publishing
  /\ Len(tasks) < MaxTasks
  /\ user # Null
  /\ editCampaign' = [editCampaign EXCEPT !.publishing = TRUE]
  /\ tasks' = Append(tasks, Task("EditCampaign.handlePublish", "update"))
  /\ requests' = Append(requests,
       Request(Len(tasks) + 1, "update_campaign",
               [id |-> C1, user_id |-> user, values |-> [status |-> "active"]]))
  /\ UNCHANGED <<csvVars, pageVars, user, route, db, console, uploadLeadsTab>>

\* handlePublish after the update returned
S_handlePublish_response(i) ==
  /\ EditMounted
  /\ Running(i, "EditCampaign.handlePublish", "update")
  /\ \E ok \in BOOLEAN :
       IF ok
       THEN /\ db' = UpdateCampaign(db, C1, tasks[i].user, [status |-> "active"])
            /\ editCampaign' =
                 [editCampaign EXCEPT
                    !.campaign =
                       IF @ = None THEN None
                       ELSE Some([The(@) EXCEPT !.status = "active"]),
                    !.formData.status = "active",
                    !.uploadResult =
                       Result(TRUE, "Campaign published successfully!", None, <<>>),
                    !.publishing = FALSE]
            /\ tasks' = Finish(i, "published")
            /\ UNCHANGED console
       ELSE /\ console' = Append(console, "Error publishing campaign:")
            /\ editCampaign' =
                 [editCampaign EXCEPT
                    !.uploadResult =
                       Result(FALSE, "Error publishing campaign. Please try again.",
                              None, <<>>),
                    !.publishing = FALSE]
            /\ tasks' = Finish(i, "db_error")
            /\ UNCHANGED db
  /\ UNCHANGED <<csvVars, pageVars, user, route, requests, uploadLeadsTab>>

InitSave == CsvIdle /\ AppIdle

NextSave ==
  \/ E_useEffect
  \/ E_clearUploadResult
  \/ S_setActiveTab
  \/ S_handleInputChange
  \/ S_handleSubmit
  \/ S_handlePublish
  \/ \E i \in 1..Len(tasks) : E_fetchCampaign_response(i)
  \/ \E i \in 1..Len(tasks) : S_handleSubmit_response(i)
  \/ \E i \in 1..Len(tasks) : S_handlePublish_response(i)

SpecSave == InitSave /\ [][NextSave]_vars

(***************************************************************************)
(* UploadLeadsTab, as the editor renders it on its 'leads' tab for the     *)
(* campaign it has loaded.                                                 *)
(***************************************************************************)
\* a row another session stored for the campaign
ExistingLead ==
  [id |-> 0, user_id |-> U1, campaign_id |-> C1,
   name |-> <<"Z">>, phone |-> <<>>, email |-> <<>>, company_name |-> <<>>,
   job_title |-> <<>>, source_url |-> <<>>, source_platform |-> <<>>,
   status |-> "pending"]

\* the editor with its campaign loaded and the 'leads' tab chosen
EditCampaignOnLeadsTab ==
  [EditCampaignInit EXCEPT
     !.campaign = Some(CampaignRow),
     !.formData = [offer |-> CampaignRow.offer,
                   calendar_url |-> CampaignRow.calendar_url,
                   goal |-> CampaignRow.goal, status |-> CampaignRow.status],
     !.loading = FALSE,
     !.activeTab = "leads"]

\* the campaignId prop: campaign.id of the editor
campaignId == The(editCampaign.campaign).id

LeadsMounted ==
  /\ EditRendered
  /\ editCampaign.activeTab = "leads"

Reverse(s) == [k \in 1..Len(s) |-> s[Len(s) + 1 - k]]

\* select('*').eq('campaign_id', ..).eq('user_id', ..).order('created_at',
\* {ascending: false}): rows are stored in the order of their creation
SelectLeads(d, campaign, userId) ==
  Reverse(SelectSeq(d.uploaded_leads,
                    LAMBDA l : l.campaign_id = campaign /\ l.user_id = userId))

\* delete().eq('id', leadId)
DeleteLead(d, leadId) ==
  [d EXCEPT !.uploaded_leads = SelectSeq(@, LAMBDA l : l.id # leadId)]

\* fetchExistingLeads() to its await: the tasks and, the call being task
\* number n, the requests after it
FetchCalled(ts) ==
  Append(ts, [Task("UploadLeadsTab.fetchExistingLeads", "select")
                EXCEPT !.campaign = editCampaign.campaign])

FetchRequested(rs, n) ==
  Append(rs, Request(n, "select_uploaded_leads",
                     [campaign_id |-> campaignId, user_id |-> user]))

\* the backend answers the select of a fetchExistingLeads: the rows it
\* holds now
L_fetchExistingLeads_select(i) ==
  /\ Running(i, "UploadLeadsTab.fetchExistingLeads", "select")
  /\ \E ok \in BOOLEAN :
       tasks' = [tasks EXCEPT
                   ![i].pc = "response",
                   ![i].data =
                      IF ok
                      THEN Some(SelectLeads(db, The(tasks[i].campaign).id,
                                            tasks[i].user))
                      ELSE None]
  /\ UNCHANGED <<csvVars, pageVars, user, route, db, requests, console,
                 editCampaign, uploadLeadsTab>>

\* fetchExistingLeads after the select returned
L_fetchExistingLeads_response(i) ==
  /\ LeadsMounted
  /\ Running(i, "UploadLeadsTab.fetchExistingLeads", "response")
  /\ IF tasks[i].data # None
     THEN /\ uploadLeadsTab' =
               [uploadLeadsTab EXCEPT !.existingLeads = The(tasks[i].data),
                                      !.loading = FALSE]
          /\ tasks' = Finish(i, "ok")
          /\ UNCHANGED console
     ELSE /\ console' = Append(console, "Error fetching existing leads:")
          /\ uploadLeadsTab' = [uploadLeadsTab EXCEPT !.loading = FALSE]
          /\ tasks' = Finish(i, "fetch_error")
  /\ UNCHANGED <<csvVars, pageVars, user, route, db, requests, editCampaign>>

\* handleFileSelect to its await (file.text())
L_handleFileSelect ==
  /\ LeadsMounted
  /\ ~uploadLeadsTab.showPreview
  /\ Len(tasks) < MaxTasks
  /\ \E file \in AppFiles :
       /\ uploadLeadsTab' = SelectFile(uploadLeadsTab, file)
       /\ tasks' = Append(tasks, [Task("UploadLeadsTab.handleFileSelect", "text")
                                    EXCEPT !.csvFile = Some(file)])
  /\ UNCHANGED <<csvVars, pageVars, user, route, db, requests, console, editCampaign>>

\* handleFileSelect after file.text() resolved or rejected
L_handleFileSelect_text(i) ==
  /\ LeadsMounted
  /\ Running(i, "UploadLeadsTab.handleFileSelect", "text")
  /\ \E readOk \in BOOLEAN :
       IF readOk
       THEN /\ uploadLeadsTab' =
                 SelectFileText(uploadLeadsTab, The(tasks[i].csvFile))
            /\ tasks' = Finish(i, "ok")
            /\ UNCHANGED console
       ELSE /\ uploadLeadsTab' = SelectFileError(uploadLeadsTab)
            /\ console' = Append(console, "Error parsing CSV:")
            /\ tasks' = Finish(i, "read_error")
  /\ UNCHANGED <<csvVars, pageVars, user, route, db, requests, editCampaign>>

L_handleColumnMappingChange ==
  /\ LeadsMounted
  /\ uploadLeadsTab.showPreview
  /\ uploadLeadsTab.csvPreview # None
  /\ \E dbColumn \in AppEditKeys :
       \E csvColumn \in MappingOptions(uploadLeadsTab) :
         uploadLeadsTab' =
           [uploadLeadsTab EXCEPT !.columnMapping =
              handleColumnMappingChange(@, dbColumn, csvColumn)]
  /\ UNCHANGED <<csvVars, pageVars, user, route, db, requests, console, tasks, editCampaign>>

L_resetUpload ==
  /\ LeadsMounted
  /\ uploadLeadsTab.showPreview
  /\ uploadLeadsTab' = ResetUpload(uploadLeadsTab)
  /\ UNCHANGED <<csvVars, pageVars, user, route, db, requests, console, tasks, editCampaign>>

\* the banner's close button: setUploadResult(null)
L_setUploadResult ==
  /\ LeadsMounted
  /\ uploadLeadsTab.uploadResult # None
  /\ uploadLeadsTab' = [uploadLeadsTab EXCEPT !.uploadResult = None]
  /\ UNCHANGED <<csvVars, pageVars, user, route, db, requests, console, tasks, editCampaign>>

\* the Upload button is enabled: a mapping has a column chosen
UploadEnabled(st) ==
  /\ ~st.uploadLoading
  /\ \E key \in DOMAIN st.columnMapping : st.columnMapping[key] # <<>>

\* handleFileUpload to its first await (csvFile.text())
L_handleFileUpload ==
  /\ LeadsMounted
  /\ uploadLeadsTab.showPreview
  /\ UploadEnabled(uploadLeadsTab)
  /\ Len(tasks) < MaxTasks
  /\ uploadLeadsTab.csvFile # None /\ user # Null
  /\ uploadLeadsTab' =
       [uploadLeadsTab EXCEPT !.uploadLoading = TRUE, !.uploadResult = None]
  /\ tasks' = Append(tasks,
       [Task("UploadLeadsTab.handleFileUpload", "text")
          EXCEPT !.campaign = editCampaign.campaign,
                 !.csvFile = uploadLeadsTab.csvFile,
                 !.columnMapping = uploadLeadsTab.columnMapping])
  /\ UNCHANGED <<csvVars, pageVars, user, route, db, requests, console, editCampaign>>


\* the result handleFileUpload sets after the insert
LeadsUploadedResult(n) ==
  Result(TRUE, "Successfully uploaded leads!", Some(n), <<>>)

\* a mutant of the step: the early exit on no valid lead leaves uploadLoading
\* set, as a return outside the try would
L_handleFileUpload_textNoFinally(i) ==
  /\ LeadsMounted
  /\ Running(i, "UploadLeadsTab.handleFileUpload", "text")
  /\ \E readOk \in BOOLEAN :
       LET t == tasks[i]
           r == processCSVWithMapping(The(t.csvFile), t.columnMapping)
       IN IF ~readOk
          THEN /\ console' = Append(console, "Error uploading CSV:")
               /\ uploadLeadsTab' =
                    [uploadLeadsTab EXCEPT
                       !.uploadResult =
                          UploadFailedResult("Failed to upload leads.",
                                             "read error"),
                       !.uploadLoading = FALSE]
               /\ tasks' = Finish(i, "read_error")
               /\ UNCHANGED requests
          ELSE IF Len(r.leads) = 0
          THEN /\ uploadLeadsTab' =
                    [uploadLeadsTab EXCEPT
                       !.uploadResult = NoLeadsResult(r.errors)]
               /\ tasks' = [Finish(i, "no_leads") EXCEPT ![i].errors = r.errors]
               /\ UNCHANGED <<console, requests>>
          ELSE /\ requests' = Append(requests,
                    Request(i, "insert_uploaded_leads",
                            leadsToInsert(r.leads, t.user, The(t.campaign).id)))
               /\ tasks' = [tasks EXCEPT ![i].pc = "insert",
                                         ![i].leads = r.leads,
                                         ![i].errors = r.errors]
               /\ UNCHANGED <<console, uploadLeadsTab>>
  /\ UNCHANGED <<csvVars, pageVars, user, route, db, editCampaign>>

\* handleFileUpload from the text to the insert request
L_handleFileUpload_text(i) ==
  /\ LeadsMounted
  /\ Running(i, "UploadLeadsTab.handleFileUpload", "text")
  /\ \E readOk \in BOOLEAN :
       LET t == tasks[i]
           r == processCSVWithMapping(The(t.csvFile), t.columnMapping)
       IN IF ~readOk
          THEN /\ console' = Append(console, "Error uploading CSV:")
               /\ uploadLeadsTab' =
                    [uploadLeadsTab EXCEPT
                       !.uploadResult =
                          UploadFailedResult("Failed to upload leads.",
                                             "read error"),
                       !.uploadLoading = FALSE]
               /\ tasks' = Finish(i, "read_error")
               /\ UNCHANGED requests
          ELSE IF Len(r.leads) = 0
          THEN /\ uploadLeadsTab' =
                    [uploadLeadsTab EXCEPT
                       !.uploadResult = NoLeadsResult(r.errors),
                       !.uploadLoading = FALSE]
               /\ tasks' = [Finish(i, "no_leads") EXCEPT ![i].errors = r.errors]
               /\ UNCHANGED <<console, requests>>
          ELSE /\ requests' = Append(requests,
                    Request(i, "insert_uploaded_leads",
                            leadsToInsert(r.leads, t.user, The(t.campaign).id)))
               /\ tasks' = [tasks EXCEPT ![i].pc = "insert",
                                         ![i].leads = r.leads,
                                         ![i].errors = r.errors]
               /\ UNCHANGED <<console, uploadLeadsTab>>
  /\ UNCHANGED <<csvVars, pageVars, user, route, db, editCampaign>>

\* handleFileUpload after the insert returned: the result, the reset and
\* fetchExistingLeads(), or the catch
L_handleFileUpload_insert(i) ==
  /\ LeadsMounted
  /\ Running(i, "UploadLeadsTab.handleFileUpload", "insert")
  /\ \E ok \in BOOLEAN :
       IF ok
       THEN /\ db' = InsertLeads(db,
                       leadsToInsert(tasks[i].leads, tasks[i].user,
                                     The(tasks[i].campaign).id))
            /\ uploadLeadsTab' =
                 [ResetForm(uploadLeadsTab) EXCEPT
                    !.uploadResult = LeadsUploadedResult(Len(tasks[i].leads)),
                    !.uploadLoading = FALSE]
            /\ tasks' = FetchCalled([Finish(i, "uploaded")
                                       EXCEPT ![i].dbError = Null])
            /\ requests' = FetchRequested(requests, Len(tasks) + 1)
            /\ UNCHANGED console
       ELSE /\ console' = Append(console, "Error uploading CSV:")
            /\ uploadLeadsTab' =
                 [uploadLeadsTab EXCEPT
                    !.uploadResult =
                       UploadFailedResult("Failed to upload leads.",
                                          "Database error: "),
                    !.uploadLoading = FALSE]
            /\ tasks' = [Finish(i, "db_error") EXCEPT ![i].dbError = "error"]
            /\ UNCHANGED <<db, requests>>
  /\ UNCHANGED <<csvVars, pageVars, user, route, editCampaign>>

\* deleteLead(lead.id) of a listed lead: the confirm dialog, then the delete
\* request
L_deleteLead ==
  /\ LeadsMounted
  /\ ~uploadLeadsTab.loading
  /\ Len(tasks) < MaxTasks
  /\ \E k \in 1..Len(uploadLeadsTab.existingLeads) :
       \E confirmed \in BOOLEAN :
         IF confirmed
         THEN /\ tasks' = Append(tasks,
                   [Task("UploadLeadsTab.deleteLead", "delete")
                      EXCEPT !.leadId =
                                Some(uploadLeadsTab.existingLeads[k].id)])
              /\ requests' = Append(requests,
                   Request(Len(tasks) + 1, "delete_uploaded_lead",
                           [id |-> uploadLeadsTab.existingLeads[k].id]))
         ELSE /\ tasks' = Append(tasks,
                   [Task("UploadLeadsTab.deleteLead", "done")
                      EXCEPT !.leadId =
                                Some(uploadLeadsTab.existingLeads[k].id),
                             !.outcome = "declined"])
              /\ UNCHANGED requests
  /\ UNCHANGED <<csvVars, pageVars, user, route, db, console, editCampaign, uploadLeadsTab>>

\* deleteLead after the delete returned
L_deleteLead_response(i) ==
  /\ LeadsMounted
  /\ Running(i, "UploadLeadsTab.deleteLead", "delete")
  /\ \E ok \in BOOLEAN :
       IF ok
       THEN /\ db' = DeleteLead(db, The(tasks[i].leadId))
            /\ tasks' = FetchCalled(Finish(i, "deleted"))
            /\ requests' = FetchRequested(requests, Len(tasks) + 1)
            /\ UNCHANGED console
       ELSE /\ console' = Append(console, "Error deleting lead:")
            /\ tasks' = Finish(i, "delete_error")
            /\ UNCHANGED <<db, requests>>
  /\ UNCHANGED <<csvVars, pageVars, user, route, editCampaign, uploadLeadsTab>>

\* the tab has mounted on a campaign holding one lead: its effect has called
\* fetchExistingLeads
InitLeads ==
  /\ CsvIdle
  /\ user = U1
  /\ route = "edit"
  /\ db = [DbInit EXCEPT !.uploaded_leads = <<ExistingLead>>]
  /\ console = <<>>
  /\ editCampaign = EditCampaignOnLeadsTab
  /\ uploadLeadsTab = UploadLeadsTabInit
  /\ campaignsPage = CampaignsInit
  /\ sequenceBuilder = SequenceBuilderInit
  /\ tasks = <<[Task("UploadLeadsTab.fetchExistingLeads", "select")
                  EXCEPT !.user = U1, !.campaign = Some(CampaignRow)]>>
  /\ requests = <<Request(1, "select_uploaded_leads",
                          [campaign_id |-> C1, user_id |-> U1])>>

NextLeads ==
  \/ L_handleFileSelect
  \/ L_handleColumnMappingChange
  \/ L_resetUpload
  \/ L_setUploadResult
  \/ L_handleFileUpload
  \/ L_deleteLead
  \/ \E i \in 1..Len(tasks) : L_fetchExistingLeads_select(i)
  \/ \E i \in 1..Len(tasks) : L_fetchExistingLeads_response(i)
  \/ \E i \in 1..Len(tasks) : L_handleFileSelect_text(i)
  \/ \E i \in 1..Len(tasks) : L_handleFileUpload_text(i)
  \/ \E i \in 1..Len(tasks) : L_handleFileUpload_insert(i)
  \/ \E i \in 1..Len(tasks) : L_deleteLead_response(i)

SpecLeads == InitLeads /\ [][NextLeads]_vars

\* the session ends while the editor is open: useAuth().user becomes null
\* (no effect of the two components does anything for a null user)
L_sessionEnds ==
  /\ EditRendered
  /\ user # Null
  /\ \A i \in 1..Len(tasks) : tasks[i].pc = "done"
  /\ user' = Null
  /\ UNCHANGED <<csvVars, pageVars, route, db, requests, console, tasks,
                 editCampaign, uploadLeadsTab>>

\* the 'leads' tab is opened: UploadLeadsTab mounts with its useState initial
\* values and its effect calls fetchExistingLeads, which returns at once
\* without a user
L_mount ==
  /\ EditRendered
  /\ editCampaign.activeTab # "leads"
  /\ Len(tasks) < MaxTasks
  /\ editCampaign' = [editCampaign EXCEPT !.activeTab = "leads"]
  /\ uploadLeadsTab' = UploadLeadsTabInit
  /\ IF user = Null
     THEN /\ tasks' = Append(tasks,
               [Task("UploadLeadsTab.fetchExistingLeads", "done")
                  EXCEPT !.outcome = "no_user"])
          /\ UNCHANGED requests
     ELSE /\ tasks' = FetchCalled(tasks)
          /\ requests' = FetchRequested(requests, Len(tasks) + 1)
  /\ UNCHANGED <<csvVars, pageVars, user, route, db, console>>

\* another tab is opened once the handlers of the tab have returned:
\* UploadLeadsTab unmounts
L_unmount ==
  /\ LeadsMounted
  /\ \A i \in 1..Len(tasks) : tasks[i].pc = "done"
  /\ editCampaign' = [editCampaign EXCEPT !.activeTab = "analytics"]
  /\ UNCHANGED <<csvVars, pageVars, user, route, db, requests, console, tasks,
                 uploadLeadsTab>>

\* the editor shows campaign C1 on its first tab, the leads tab not opened
InitMount ==
  /\ CsvIdle
  /\ user = U1
  /\ route = "edit"
  /\ db = [DbInit EXCEPT !.uploaded_leads = <<ExistingLead>>]
  /\ console = <<>>
  /\ editCampaign = [EditCampaignOnLeadsTab EXCEPT !.activeTab = "analytics"]
  /\ uploadLeadsTab = UploadLeadsTabInit
  /\ campaignsPage = CampaignsInit
  /\ sequenceBuilder = SequenceBuilderInit
  /\ tasks = <<>>
  /\ requests = <<>>

NextMount ==
  \/ L_sessionEnds
  \/ E_useEffect
  \/ L_mount
  \/ L_unmount
  \/ L_handleFileSelect
  \/ L_resetUpload
  \/ \E i \in 1..Len(tasks) : E_fetchCampaign_response(i)
  \/ \E i \in 1..Len(tasks) : L_fetchExistingLeads_select(i)
  \/ \E i \in 1..Len(tasks) : L_fetchExistingLeads_response(i)
  \/ \E i \in 1..Len(tasks) : L_handleFileSelect_text(i)

SpecMount == InitMount /\ [][NextMount]_vars

\* every request sent is answered, and the answer is handled
SpecMountFair ==
  /\ SpecMount
  /\ WF_vars(\E i \in 1..Len(tasks) : E_fetchCampaign_response(i))
  /\ WF_vars(\E i \in 1..Len(tasks) : L_fetchExistingLeads_select(i))
  /\ WF_vars(\E i \in 1..Len(tasks) : L_fetchExistingLeads_response(i))
  /\ WF_vars(\E i \in 1..Len(tasks) : L_handleFileSelect_text(i))

(***************************************************************************)
(* Campaigns, the list page.                                               *)
(***************************************************************************)
\* the list is rendered: the page is past its loading spinner
ListRendered == ~campaignsPage.loading

\* select('*').eq('user_id', ..).order('created_at', {ascending: false})
SelectCampaigns(d, userId) ==
  Reverse(SelectSeq(d.campaigns, LAMBDA c : c.user_id = userId))

\* the ids gen_random_uuid() gives to new campaigns, in the order it is asked
NewIds == <<"n1", "n2", "n3", "n4", "n5", "n6">>

\* a mutant of the insert: the row takes the defaults, not the form's values
NewCampaignDefaults(d, userId, values) ==
  [id |-> NewIds[d.next_id], user_id |-> userId, offer |-> FormDefaults.offer,
   calendar_url |-> FormDefaults.calendar_url, goal |-> FormDefaults.goal,
   status |-> FormDefaults.status]

\* the row an insert of the form's values stores
NewCampaign(d, userId, values) ==
  [id |-> NewIds[d.next_id], user_id |-> userId, offer |-> values.offer,
   calendar_url |-> values.calendar_url, goal |-> values.goal,
   status |-> values.status]

InsertCampaign(d, userId, values) ==
  [d EXCEPT !.campaigns = Append(@, NewCampaign(d, userId, values)),
            !.next_id = @ + 1]

\* a mutant of the delete: the sequences of the campaign are kept
DeleteCampaignNoCascade(d, id) ==
  [d EXCEPT !.campaigns = SelectSeq(@, LAMBDA c : c.id # id)]

\* delete().eq('id', campaignId), and what the schema does with it:
\* campaign_sequences.campaign_id REFERENCES campaigns(id) ON DELETE CASCADE
DeleteCampaign(d, id) ==
  [d EXCEPT !.campaigns = SelectSeq(@, LAMBDA c : c.id # id),
            !.campaign_sequences = SelectSeq(@, LAMBDA r : r.campaign_id # id)]

\* fetchCampaigns() by a handler whose closure holds user u, to its await
CampaignsFetchCalled(ts, u) ==
  Append(ts, [Task("Campaigns.fetchCampaigns", "select") EXCEPT !.user = u])

CampaignsFetchRequested(rs, n, u) ==
  Append(rs, Request(n, "select_campaigns", [user_id |-> u]))

\* the backend answers the select of a fetchCampaigns: the rows it holds now
P_fetchCampaigns_select(i) ==
  /\ Running(i, "Campaigns.fetchCampaigns", "select")
  /\ \E ok \in BOOLEAN :
       tasks' = [tasks EXCEPT
                   ![i].pc = "response",
                   ![i].data = IF ok
                               THEN Some(SelectCampaigns(db, tasks[i].user))
                               ELSE None]
  /\ UNCHANGED <<csvVars, user, route, db, requests, console, editCampaign,
                 uploadLeadsTab, pageVars>>

\* fetchCampaigns after the select returned
P_fetchCampaigns_response(i) ==
  /\ Running(i, "Campaigns.fetchCampaigns", "response")
  /\ IF tasks[i].data # None
     THEN /\ campaignsPage' =
               [campaignsPage EXCEPT !.campaigns = The(tasks[i].data),
                                     !.loading = FALSE]
          /\ tasks' = Finish(i, "ok")
          /\ UNCHANGED console
     ELSE /\ console' = Append(console, "Error fetching campaigns:")
          /\ campaignsPage' = [campaignsPage EXCEPT !.loading = FALSE]
          /\ tasks' = Finish(i, "fetch_error")
  /\ UNCHANGED <<csvVars, user, route, db, requests, editCampaign,
                 uploadLeadsTab, sequenceBuilder>>

\* the session ends: useAuth().user becomes null (the effect on [user] then
\* fetches nothing)
P_signOut ==
  /\ ListRendered
  /\ user # Null
  /\ user' = Null
  /\ UNCHANGED <<csvVars, pageVars, route, db, requests, console, tasks,
                 editCampaign, uploadLeadsTab>>

\* the create button and the form's Cancel: setShowCreateForm
P_setShowCreateForm ==
  /\ ListRendered
  /\ campaignsPage' = [campaignsPage EXCEPT !.showCreateForm = ~@]
  /\ UNCHANGED <<csvVars, user, route, db, requests, console, tasks,
                 editCampaign, uploadLeadsTab, sequenceBuilder>>

\* the texts typed into the offer field
OfferInputs == {"", "x"}

\* onChange of the offer field: setFormData({...formData, offer})
P_setFormData ==
  /\ ListRendered
  /\ campaignsPage.showCreateForm
  /\ \E value \in OfferInputs \ {campaignsPage.formData.offer} :
       campaignsPage' = [campaignsPage EXCEPT !.formData.offer = value]
  /\ UNCHANGED <<csvVars, user, route, db, requests, console, tasks,
                 editCampaign, uploadLeadsTab, sequenceBuilder>>

\* handleCreateCampaign to its await; the offer field is required
P_handleCreateCampaign ==
  /\ ListRendered
  /\ campaignsPage.showCreateForm
  /\ campaignsPage.formData.offer # ""
  /\ Len(tasks) < MaxTasks
  /\ IF user = Null
     THEN /\ tasks' = Append(tasks,
               [Task("Campaigns.handleCreateCampaign", "done")
                  EXCEPT !.outcome = "no_user"])
          /\ UNCHANGED requests
     ELSE /\ tasks' = Append(tasks,
               [Task("Campaigns.handleCreateCampaign", "insert")
                  EXCEPT !.formData = Some(campaignsPage.formData)])
          /\ requests' = Append(requests,
               Request(Len(tasks) + 1, "insert_campaign",
                       [user_id |-> user] @@ campaignsPage.formData))
  /\ UNCHANGED <<csvVars, pageVars, user, route, db, console, editCampaign,
                 uploadLeadsTab>>

\* handleCreateCampaign after the insert returned
P_handleCreateCampaign_response(i) ==
  /\ Running(i, "Campaigns.handleCreateCampaign", "insert")
  /\ \E ok \in BOOLEAN :
       IF ok
       THEN /\ db' = InsertCampaign(db, tasks[i].user, The(tasks[i].formData))
            /\ campaignsPage' =
                 [campaignsPage EXCEPT !.formData = FormDefaults,
                                       !.showCreateForm = FALSE]
            /\ tasks' = CampaignsFetchCalled(Finish(i, "created"), tasks[i].user)
            /\ requests' =
                 CampaignsFetchRequested(requests, Len(tasks) + 1, tasks[i].user)
            /\ UNCHANGED console
       ELSE /\ console' = Append(console, "Error creating campaign:")
            /\ tasks' = Finish(i, "db_error")
            /\ UNCHANGED <<db, requests, campaignsPage>>
  /\ UNCHANGED <<csvVars, user, route, editCampaign, uploadLeadsTab,
                 sequenceBuilder>>

\* a mutant of handleDeleteCampaign: the answer to the confirm dialog is not
\* looked at
P_handleDeleteCampaignNoConfirm ==
  /\ ListRendered
  /\ Len(tasks) < MaxTasks
  /\ \E k \in 1..Len(campaignsPage.campaigns) :
       \E confirmed \in BOOLEAN :
         /\ tasks' = Append(tasks,
              [Task("Campaigns.handleDeleteCampaign", "delete")
                 EXCEPT !.deleteId = Some(campaignsPage.campaigns[k].id),
                        !.outcome = IF confirmed THEN "running"
                                    ELSE "declined"])
         /\ requests' = Append(requests,
              Request(Len(tasks) + 1, "delete_campaign",
                      [id |-> campaignsPage.campaigns[k].id]))
  /\ UNCHANGED <<csvVars, pageVars, user, route, db, console, editCampaign,
                 uploadLeadsTab>>

\* handleDeleteCampaign(campaign.id) of a listed campaign: the confirm
\* dialog, then the delete request; declined, the handler returns
P_handleDeleteCampaign ==
  /\ ListRendered
  /\ Len(tasks) < MaxTasks
  /\ \E k \in 1..Len(campaignsPage.campaigns) :
       \E confirmed \in BOOLEAN :
         IF confirmed
         THEN /\ tasks' = Append(tasks,
                   [Task("Campaigns.handleDeleteCampaign", "delete")
                      EXCEPT !.deleteId = Some(campaignsPage.campaigns[k].id)])
              /\ requests' = Append(requests,
                   Request(Len(tasks) + 1, "delete_campaign",
                           [id |-> campaignsPage.campaigns[k].id]))
         ELSE /\ tasks' = Append(tasks,
                   [Task("Campaigns.handleDeleteCampaign", "done")
                      EXCEPT !.deleteId = Some(campaignsPage.campaigns[k].id),
                             !.outcome = "declined"])
              /\ UNCHANGED requests
  /\ UNCHANGED <<csvVars, pageVars, user, route, db, console, editCampaign,
                 uploadLeadsTab>>

\* handleDeleteCampaign after the delete returned; its fetchCampaigns() reads
\* the user of the render the click happened in
P_handleDeleteCampaign_response(i) ==
  /\ Running(i, "Campaigns.handleDeleteCampaign", "delete")
  /\ \E ok \in BOOLEAN :
       IF ok
       THEN /\ db' = DeleteCampaign(db, The(tasks[i].deleteId))
            /\ IF tasks[i].user = Null
               THEN /\ tasks' = Finish(i, "deleted")
                    /\ UNCHANGED requests
               ELSE /\ tasks' = CampaignsFetchCalled(Finish(i, "deleted"),
                                                     tasks[i].user)
                    /\ requests' = CampaignsFetchRequested(
                                     requests, Len(tasks) + 1, tasks[i].user)
            /\ UNCHANGED console
       ELSE /\ console' = Append(console, "Error deleting campaign:")
            /\ tasks' = Finish(i, "delete_error")
            /\ UNCHANGED <<db, requests>>
  /\ UNCHANGED <<csvVars, pageVars, user, route, editCampaign, uploadLeadsTab>>

\* a second campaign of the user
CampaignRow2 ==
  [id |-> "c2", user_id |-> U1, offer |-> "offer2", calendar_url |-> "",
   goal |-> "", status |-> "active"]

\* the page has mounted for a signed-in user with two campaigns: its effect
\* has called fetchCampaigns
InitCampaigns ==
  /\ CsvIdle
  /\ user = U1
  /\ route = "/campaigns"
  /\ db = [DbInit EXCEPT !.campaigns = <<CampaignRow, CampaignRow2>>]
  /\ console = <<>>
  /\ editCampaign = EditCampaignInit
  /\ uploadLeadsTab = UploadLeadsTabInit
  /\ campaignsPage = CampaignsInit
  /\ sequenceBuilder = SequenceBuilderInit
  /\ tasks = <<[Task("Campaigns.fetchCampaigns", "select") EXCEPT !.user = U1]>>
  /\ requests = <<Request(1, "select_campaigns", [user_id |-> U1])>>

NextCampaigns ==
  \/ P_signOut
  \/ P_setShowCreateForm
  \/ P_setFormData
  \/ P_handleCreateCampaign
  \/ P_handleDeleteCampaign
  \/ \E i \in 1..Len(tasks) : P_fetchCampaigns_select(i)
  \/ \E i \in 1..Len(tasks) : P_fetchCampaigns_response(i)
  \/ \E i \in 1..Len(tasks) : P_handleCreateCampaign_response(i)
  \/ \E i \in 1..Len(tasks) : P_handleDeleteCampaign_response(i)

SpecCampaigns == InitCampaigns /\ [][NextCampaigns]_vars

(***************************************************************************)
(* SequenceBuilder, mounted on campaign C1.                                *)
(***************************************************************************)
\* stepsToInsert: the rows saveSequence inserts for the steps
stepsToInsert(steps, campaign) ==
  [k \in 1..Len(steps) |->
     [campaign_id     |-> campaign,
      step_number     |-> steps[k].step_number,
      message_type    |-> steps[k].message_type,
      message_content |-> steps[k].message_content,
      delay_hours     |-> steps[k].delay_hours]]

\* the campaign_sequences rows of a campaign, as stored
StoredSequence(d, campaign) ==
  SelectSeq(d.campaign_sequences, LAMBDA r : r.campaign_id = campaign)

\* .order('step_number'): rows with the same number keep their stored order
RECURSIVE OrderByStep(_, _)
OrderByStep(rows, n) ==
  IF \A k \in 1..Len(rows) : rows[k].step_number < n THEN <<>>
  ELSE SelectSeq(rows, LAMBDA r : r.step_number = n)
         \o OrderByStep(rows, n + 1)

\* data.map(step => ({...})) of fetchSequence
StepsOf(rows) ==
  [k \in 1..Len(rows) |->
     Step(rows[k].step_number, rows[k].message_type,
          rows[k].message_content, rows[k].delay_hours)]

\* delete().eq('campaign_id', campaignId)
DeleteSequence(d, campaign) ==
  [d EXCEPT !.campaign_sequences =
     SelectSeq(@, LAMBDA r : r.campaign_id # campaign)]

\* campaign_id REFERENCES campaigns(id): the insert is refused for a
\* campaign that is not there
CampaignExists(d, campaign) ==
  \E k \in 1..Len(d.campaigns) : d.campaigns[k].id = campaign

InsertSequence(d, rows) ==
  [d EXCEPT !.campaign_sequences = @ \o rows]

\* the editor is rendered: past its loading spinner
SequenceRendered == ~sequenceBuilder.loading

\* fetchSequence after the select returned
Q_fetchSequence_response(i) ==
  /\ Running(i, "SequenceBuilder.fetchSequence", "select")
  /\ \E ok \in BOOLEAN :
       IF ok
       THEN LET data == OrderByStep(StoredSequence(db, C1), 0)
            IN /\ sequenceBuilder' =
                    [sequenceBuilder EXCEPT
                       !.steps = IF Len(data) > 0 THEN StepsOf(data) ELSE @,
                       !.loading = FALSE]
               /\ tasks' = Finish(i, "ok")
               /\ UNCHANGED console
       ELSE /\ console' = Append(console, "Error fetching sequence:")
            /\ sequenceBuilder' = [sequenceBuilder EXCEPT !.loading = FALSE]
            /\ tasks' = Finish(i, "fetch_error")
  /\ UNCHANGED <<csvVars, user, route, db, requests, editCampaign,
                 uploadLeadsTab, campaignsPage>>

\* a mutant of addStep: the new step takes the number of the last one
addStepSameNumber(steps) ==
  Append(steps, Step(Len(steps), "sms", "", 24))

addStep(steps) ==
  Append(steps, Step(Len(steps) + 1, "sms", "", 24))

\* removeStep(index), index counted from 0: filter, then renumber
removeStep(steps, index) ==
  LET newSteps == [k \in 1..(Len(steps) - 1) |->
                     IF k <= index THEN steps[k] ELSE steps[k + 1]]
  IN [k \in 1..Len(newSteps) |-> [newSteps[k] EXCEPT !.step_number = k]]

\* updateStep(index, field, value), index counted from 0
updateStep(steps, index, field, value) ==
  [steps EXCEPT ![index + 1] = [@ EXCEPT ![field] = value]]

Q_addStep ==
  /\ SequenceRendered
  /\ Len(sequenceBuilder.steps) < MaxSteps
  /\ sequenceBuilder' = [sequenceBuilder EXCEPT !.steps = addStep(@)]
  /\ UNCHANGED <<csvVars, appVars, campaignsPage>>

\* the remove button is rendered when steps.length > 1
Q_removeStep ==
  /\ SequenceRendered
  /\ Len(sequenceBuilder.steps) > 1
  /\ \E index \in 0..(Len(sequenceBuilder.steps) - 1) :
       sequenceBuilder' = [sequenceBuilder EXCEPT !.steps = removeStep(@, index)]
  /\ UNCHANGED <<csvVars, appVars, campaignsPage>>

\* the values the model enters in a step's controls
StepInputs ==
  {<<"message_type", "email">>, <<"message_content", "hi">>,
   <<"delay_hours", 48>>}

Q_updateStep ==
  /\ SequenceRendered
  /\ \E index \in 0..(Len(sequenceBuilder.steps) - 1) :
       \E input \in StepInputs :
         /\ sequenceBuilder.steps[index + 1][input[1]] # input[2]
         /\ sequenceBuilder' =
              [sequenceBuilder EXCEPT
                 !.steps = updateStep(@, index, input[1], input[2])]
  /\ UNCHANGED <<csvVars, appVars, campaignsPage>>

\* saveSequence to its first await: the delete of the stored steps is sent
Q_saveSequence ==
  /\ SequenceRendered
  /\ ~sequenceBuilder.saving
  /\ Len(tasks) < MaxTasks
  /\ user # Null
  /\ sequenceBuilder' = [sequenceBuilder EXCEPT !.saving = TRUE]
  /\ tasks' = Append(tasks,
       [Task("SequenceBuilder.saveSequence", "delete")
          EXCEPT !.steps = sequenceBuilder.steps,
                 !.stored = StoredSequence(db, C1)])
  /\ requests' = Append(requests,
       Request(Len(tasks) + 1, "delete_campaign_sequences",
               [campaign_id |-> C1]))
  /\ UNCHANGED <<csvVars, user, route, db, console, editCampaign,
                 uploadLeadsTab, campaignsPage>>

\* saveSequence after the delete returned: its result is not looked at, the
\* insert is sent
Q_saveSequence_delete(i) ==
  /\ Running(i, "SequenceBuilder.saveSequence", "delete")
  /\ \E ok \in BOOLEAN :
       /\ db' = IF ok THEN DeleteSequence(db, C1) ELSE db
       /\ tasks' = [tasks EXCEPT ![i].pc = "insert",
                                 ![i].dbError = IF ok THEN Null ELSE "error"]
  /\ requests' = Append(requests,
       Request(i, "insert_campaign_sequences",
               stepsToInsert(tasks[i].steps, C1)))
  /\ UNCHANGED <<csvVars, pageVars, user, route, console, editCampaign,
                 uploadLeadsTab>>

\* saveSequence after the insert returned
Q_saveSequence_insert(i) ==
  /\ Running(i, "SequenceBuilder.saveSequence", "insert")
  /\ \E ok \in BOOLEAN :
       IF ok /\ CampaignExists(db, C1)
       THEN /\ db' = InsertSequence(db, stepsToInsert(tasks[i].steps, C1))
            /\ tasks' = Finish(i, "sequence_saved")
            /\ UNCHANGED console
       ELSE /\ console' = Append(console, "Error saving sequence:")
            /\ tasks' = Finish(i, "db_error")
            /\ UNCHANGED db
  /\ sequenceBuilder' = [sequenceBuilder EXCEPT !.saving = FALSE]
  /\ UNCHANGED <<csvVars, user, route, requests, editCampaign,
                 uploadLeadsTab, campaignsPage>>

\* the builder has mounted for a signed-in user: its effect has called
\* fetchSequence; the list page, in another window, shows the campaign
SequenceMounted ==
  /\ CsvIdle
  /\ user = U1
  /\ route = "/campaigns"
  /\ console = <<>>
  /\ editCampaign = EditCampaignInit
  /\ uploadLeadsTab = UploadLeadsTabInit
  /\ sequenceBuilder = SequenceBuilderInit
  /\ tasks = <<Task("SequenceBuilder.fetchSequence", "select")>>
  /\ requests = <<Request(1, "select_campaign_sequences",
                          [campaign_id |-> C1])>>

\* the editing of the steps, nothing being stored for the campaign
InitSteps ==
  /\ SequenceMounted
  /\ db = DbInit
  /\ campaignsPage = CampaignsInit

NextSteps ==
  \/ Q_addStep
  \/ Q_removeStep
  \/ Q_updateStep
  \/ \E i \in 1..Len(tasks) : Q_fetchSequence_response(i)

SpecSteps == InitSteps /\ [][NextSteps]_vars

\* a sequence of two steps saved earlier for C1
SavedSequence ==
  stepsToInsert(<<Step(1, "call", "", 0), Step(2, "email", "old", 24)>>, C1)

\* saving, with campaigns being deleted from the list page
InitSeq ==
  /\ SequenceMounted
  /\ db \in {DbInit, [DbInit EXCEPT !.campaign_sequences = SavedSequence]}
  /\ campaignsPage = [CampaignsInit EXCEPT !.campaigns = <<CampaignRow>>,
                                           !.loading = FALSE]

NextSeq ==
  \/ Q_addStep
  \/ Q_saveSequence
  \/ P_handleDeleteCampaign
  \/ \E i \in 1..Len(tasks) : Q_fetchSequence_response(i)
  \/ \E i \in 1..Len(tasks) : Q_saveSequence_delete(i)
  \/ \E i \in 1..Len(tasks) : Q_saveSequence_insert(i)
  \/ \E i \in 1..Len(tasks) : P_handleDeleteCampaign_response(i)
  \/ \E i \in 1..Len(tasks) : P_fetchCampaigns_select(i)
  \/ \E i \in 1..Len(tasks) : P_fetchCampaigns_response(i)

SpecSeq == InitSeq /\ [][NextSeq]_vars

\* the builder is mounted again (the page is reopened) once the handlers of
\* the earlier mount have returned: the useState initial values, and the
\* effect calls fetchSequence
Q_mount ==
  /\ SequenceRendered
  /\ Len(tasks) < MaxTasks
  /\ \A i \in 1..Len(tasks) : tasks[i].pc = "done"
  /\ sequenceBuilder' = SequenceBuilderInit
  /\ tasks' = Append(tasks, Task("SequenceBuilder.fetchSequence", "select"))
  /\ requests' = Append(requests,
       Request(Len(tasks) + 1, "select_campaign_sequences",
               [campaign_id |-> C1]))
  /\ UNCHANGED <<csvVars, user, route, db, console, editCampaign,
                 uploadLeadsTab, campaignsPage>>

\* editing, saving and reopening the builder
InitReload ==
  /\ SequenceMounted
  /\ db \in {DbInit, [DbInit EXCEPT !.campaign_sequences = SavedSequence]}
  /\ campaignsPage = CampaignsInit

NextReload ==
  \/ Q_addStep
  \/ Q_removeStep
  \/ Q_saveSequence
  \/ Q_mount
  \/ \E i \in 1..Len(tasks) : Q_fetchSequence_response(i)
  \/ \E i \in 1..Len(tasks) : Q_saveSequence_delete(i)
  \/ \E i \in 1..Len(tasks) : Q_saveSequence_insert(i)

SpecReload == InitReload /\ [][NextReload]_vars

(***************************************************************************)
(* The handlers that hold a busy flag while they run, of the three         *)
(* components, with every request answered.                                *)
(***************************************************************************)
InitBusy == InitLeads \/ InitSave \/ InitReload

NextBusy == NextLeads \/ NextSave \/ NextReload

SpecBusy ==
  /\ InitBusy
  /\ [][NextBusy]_vars
  /\ WF_vars(\E i \in 1..Len(tasks) : E_fetchCampaign_response(i))
  /\ WF_vars(\E i \in 1..Len(tasks) : S_handleSubmit_response(i))
  /\ WF_vars(\E i \in 1..Len(tasks) : S_handlePublish_response(i))
  /\ WF_vars(\E i \in 1..Len(tasks) : L_handleFileUpload_text(i))
  /\ WF_vars(\E i \in 1..Len(tasks) : L_handleFileUpload_insert(i))
  /\ WF_vars(\E i \in 1..Len(tasks) : Q_saveSequence_delete(i))
  /\ WF_vars(\E i \in 1..Len(tasks) : Q_saveSequence_insert(i))

(***************************************************************************)
(* The two pages with a delete button: the application is open on the list *)
(* page or on the editor's Upload Leads tab.                               *)
(***************************************************************************)
InitDeletes == InitCampaigns \/ InitLeads

NextDeletes == NextCampaigns \/ NextLeads

SpecDeletes == InitDeletes /\ [][NextDeletes]_vars

(***************************************************************************)
(* Properties of the CSV pipeline (C7 under SpecRows, C8-C10 under SpecCsv).*)
(***************************************************************************)
\* the lines of a text as written, blank ones included
RawLinesOf(text) == Split(text, NL)

IsBlank(line) == \A i \in 1..Len(line) : line[i] \in WhiteSpace

\* the positions in RawLinesOf(text) of the non-blank lines
NonBlankAtOf(text) ==
  {i \in 1..Len(RawLinesOf(text)) : ~IsBlank(RawLinesOf(text)[i])}

\* the k-th smallest member of a set of numbers
Nth(S, k) == CHOOSE i \in S : Cardinality({j \in S : j < i}) = k - 1

\* the r-th non-blank line of a text (r = 1 is the header line)
RowOf(text, r) == RawLinesOf(text)[Nth(NonBlankAtOf(text), r)]

\* row r of the text has, under the mapping, a non-empty name, phone or email
RowHasContactIn(text, mapping, r) ==
  LET hs    == ParseCells(RowOf(text, 1))
      cells == ParseCells(RowOf(text, r))
  IN \E f \in {"name", "phone", "email"} :
       /\ f \in DOMAIN mapping
       /\ mapping[f] # <<>>
       /\ \E i \in 1..Len(hs) :
            /\ hs[i] = mapping[f]
            /\ \A j \in 1..(i - 1) : hs[j] # mapping[f]
            /\ i <= Len(cells)
            /\ cells[i] # <<>>

ValidRowsOf(text, mapping) ==
  {r \in 2..Cardinality(NonBlankAtOf(text)) : RowHasContactIn(text, mapping, r)}

\* the same, of the text and the mapping of the pipeline
RawLines == RawLinesOf(csvText)

NonBlankAt == NonBlankAtOf(csvText)

Row(r) == RowOf(csvText, r)

CountOf(s, c) == Cardinality({i \in 1..Len(s) : s[i] = c})

HasChar(s, c) == \E i \in 1..Len(s) : s[i] = c

\* a line with a comma between two double quotes
QuotedComma(line) ==
  \E i, j, k \in 1..Len(line) :
    i < j /\ j < k /\ line[i] = QUOTE /\ line[j] = COMMA /\ line[k] = QUOTE

\* the parsed lines the state holds: the preview's headers and rows
PreviewLine(r) == IF r = 1 THEN preview.headers ELSE preview.rows[r - 1]

\* C7: for a text with at least two non-blank lines and any mapping, every
\* non-blank data row becomes a lead (when the mapping gives it a non-empty
\* name, phone or email) or exactly one error with its row number; leads
\* keep file order; leads + errors = the preview's totalRows; no inserted
\* row lacks all of name, phone and email.
ValidRows == ValidRowsOf(csvText, columnMapping)

InvalidRows == (2..Cardinality(NonBlankAt)) \ ValidRows

C7_RowValidation ==
  (stage = "uploaded" /\ Cardinality(NonBlankAt) >= 2) =>
    /\ Len(processed.leads) + Len(processed.errors) = preview.totalRows
    /\ Len(processed.leads) = Cardinality(ValidRows)
    /\ \A k \in 1..Len(processed.leads) :
         processed.leads[k] =
           LeadOf(ParseCells(Row(1)), ParseCells(Row(Nth(ValidRows, k))),
                  columnMapping)
    /\ Len(processed.errors) = Cardinality(InvalidRows)
    /\ \A k \in 1..Len(processed.errors) :
         processed.errors[k].row = Nth(InvalidRows, k)
    /\ IF Len(processed.leads) = 0
       THEN inserted = <<>>
       ELSE /\ Len(inserted) = Len(processed.leads)
            /\ \A k \in 1..Len(inserted) :
                 \/ inserted[k].name # <<>>
                 \/ inserted[k].phone # <<>>
                 \/ inserted[k].email # <<>>

\* a file with blank lines whose rows give two leads by different fields
\* (one by its email alone) and an error in between
C7_Witness ==
  /\ stage = "uploaded"
  /\ Cardinality(NonBlankAt) < Len(RawLines) - 1
  /\ Len(processed.leads) >= 3
  /\ \E k \in 1..Len(processed.leads) :
       DOMAIN processed.leads[k] = {"email"}
  /\ \E k \in 1..Len(processed.errors) :
       /\ processed.errors[k].row > 2
       /\ processed.errors[k].row < Cardinality(NonBlankAt)
  /\ Len(inserted) = Len(processed.leads)

\* C8: the suggestion made on file selection maps each of the seven fields
\* to the first header, in file order, whose lower-cased text equals the
\* field key or matches a keyword of the field; a field with no such header
\* is unmapped; the suggestion replaces the previous mapping.
Keywords(key) ==
  CASE key = "name"            -> {W_name, W_full_name, W_first_name}
    [] key = "phone"           -> {W_phone, W_mobile, W_number}
    [] key = "email"           -> {W_email, W_mail}
    [] key = "company_name"    -> {W_company, W_organization, W_org}
    [] key = "job_title"       -> {W_title, W_position, W_job, W_role}
    [] key = "source_url"      -> {W_url, W_website, W_link}
    [] key = "source_platform" -> {W_platform, W_source, W_site}

WholeWords(key) ==
  {KeyText(key)} \cup (CASE key = "phone" -> {W_tel}
                         [] key = "email" -> {W_e_mail}
                         [] OTHER -> {})

Suggests(key, header) ==
  \/ ToLowerCase(header) \in WholeWords(key)
  \/ \E w \in Keywords(key) : Includes(ToLowerCase(header), w)

C8_AutoMapping ==
  (stage \in {"preview", "uploaded"}) =>
    /\ Len(DATABASE_COLUMNS) = 7
    /\ DOMAIN autoMapping \subseteq DbKeys
    /\ \A key \in DbKeys :
         LET hs   == preview.headers
             hits == {i \in 1..Len(hs) : Suggests(key, hs[i])}
         IN IF hits = {}
            THEN key \notin DOMAIN autoMapping
            ELSE /\ key \in DOMAIN autoMapping
                 /\ autoMapping[key] = hs[Nth(hits, 1)]
    /\ (stage = "preview" /\ edits = 0) => columnMapping = autoMapping

\* two different headers suit one field and the first is suggested, a field
\* is suggested by equality with 'tel' or 'e-mail', another is left unmapped
C8_Witness ==
  /\ stage = "preview"
  /\ edits = 0
  /\ \E key \in DbKeys :
       \E i, j \in 1..Len(preview.headers) :
         /\ i < j
         /\ preview.headers[i] # preview.headers[j]
         /\ Suggests(key, preview.headers[i])
         /\ Suggests(key, preview.headers[j])
         /\ columnMapping[key] = preview.headers[i]
  /\ \E key \in DbKeys : key \notin DOMAIN columnMapping

\* C9: every line is split at every comma, those inside double quotes too,
\* and no header or cell of the parsed result holds a comma or a double
\* quote.
C9_NaiveCells ==
  /\ (stage \in {"preview", "uploaded"}) =>
       \A r \in 1..Min(PreviewSliceEnd, Cardinality(NonBlankAt)) :
         /\ Len(PreviewLine(r)) = CountOf(Row(r), COMMA) + 1
         /\ \A c \in 1..Len(PreviewLine(r)) :
              /\ ~HasChar(PreviewLine(r)[c], COMMA)
              /\ ~HasChar(PreviewLine(r)[c], QUOTE)
  /\ (stage = "uploaded") =>
       \A k \in 1..Len(processed.leads) :
         \A f \in DOMAIN processed.leads[k] :
           /\ ~HasChar(processed.leads[k][f], COMMA)
           /\ ~HasChar(processed.leads[k][f], QUOTE)

\* a quoted value with a comma inside is spread over two cells of a lead
C9_Witness ==
  /\ stage = "uploaded"
  /\ \E r \in 2..Min(PreviewSliceEnd, Cardinality(NonBlankAt)) :
       /\ QuotedComma(Row(r))
       /\ Len(PreviewLine(r)) > Len(preview.headers)
       /\ \E k \in 1..Len(processed.leads) :
            /\ "name" \in DOMAIN processed.leads[k]
            /\ "email" \in DOMAIN processed.leads[k]
            /\ processed.leads[k]["name"] = PreviewLine(r)[1]
            /\ processed.leads[k]["email"] = PreviewLine(r)[2]

\* C10: the preview ignores blank lines, takes the headers from the first
\* non-blank line, shows at most the first five non-blank data lines and
\* counts totalRows = non-blank lines - 1 (0 for a text with none).
C10_Preview ==
  (stage \in {"preview", "uploaded"}) =>
    LET n == Cardinality(NonBlankAt)
    IN /\ preview.totalRows >= 0
       /\ Len(preview.rows) = Min(5, preview.totalRows)
       /\ IF n = 0
          THEN preview = [headers |-> <<>>, rows |-> <<>>, totalRows |-> 0]
          ELSE /\ preview.totalRows = n - 1
               /\ preview.headers = ParseCells(Row(1))
               /\ \A k \in 1..Len(preview.rows) :
                    preview.rows[k] = ParseCells(Row(k + 1))

\* more than five data lines and a blank line among the lines
C10_Witness ==
  /\ stage = "preview"
  /\ preview.totalRows > 5
  /\ Len(preview.rows) = 5
  /\ \E i \in 2..(Len(RawLines) - 1) : IsBlank(RawLines[i])

(***************************************************************************)
(* Properties of EditCampaign (checked under SpecEdit).                    *)
(***************************************************************************)
IsUpload(t) == t.handler = "EditCampaign.handleFileUpload"

IsTrigger(t) == t.handler = "EditCampaign.triggerChannelsEngine"

\* the requests of a kind that task i sent
Sent(i, kind) ==
  {j \in 1..Len(requests) : requests[j].by = i /\ requests[j].kind = kind}

SentBy(i) == {j \in 1..Len(requests) : requests[j].by = i}

\* C1: in EditCampaign.handleFileUpload, once the insert has succeeded the
\* handler ends with success = true and leadsCount = the number of valid
\* leads whatever the webhook does (ok, not ok, exception); a webhook
\* failure only adds entries to the result's errors.
C1_WebhookNonFatal ==
  [][\A i \in 1..Len(tasks) :
       /\ (IsUpload(tasks[i]) /\ tasks[i].pc = "insert" /\ tasks'[i].pc = "done")
            => db' = db
       /\ (IsUpload(tasks[i]) /\ tasks[i].pc = "insert"
             /\ tasks'[i] # tasks[i] /\ db' # db)
            => tasks'[i].pc = "webhook"
       /\ (IsUpload(tasks[i]) /\ tasks[i].pc = "webhook" /\ tasks'[i].pc = "done")
            => /\ editCampaign'.uploadResult # None
               /\ The(editCampaign'.uploadResult).success = TRUE
               /\ The(editCampaign'.uploadResult).leadsCount =
                    Some(Cardinality(ValidRowsOf(The(tasks[i].csvFile),
                                                 tasks[i].columnMapping)))
               /\ Len(The(editCampaign'.uploadResult).errors) =
                    (IF tasks'[i].response = "ok" THEN 0 ELSE 2)
    ]_vars

\* an upload of several leads whose webhook POST failed ended in success
C1_Witness ==
  \E i \in 1..Len(tasks) :
    /\ IsUpload(tasks[i])
    /\ tasks[i].pc = "done"
    /\ tasks[i].response = "exception"
    /\ Len(tasks[i].leads) >= 2
    /\ Len(tasks[i].errors) >= 1
    /\ editCampaign.uploadResult # None
    /\ The(editCampaign.uploadResult).success
    /\ The(editCampaign.uploadResult).leadsCount = Some(Len(tasks[i].leads))
    /\ Len(The(editCampaign.uploadResult).errors) = 2

\* C2: the start-campaign POST is sent only after the insert of the same
\* upload returned without error; an upload that found no valid lead or
\* whose insert failed sends no webhook request.
C2_WebhookAfterInsert ==
  /\ \A j \in 1..Len(requests) :
       requests[j].kind = "post_start_campaign" =>
         /\ IsUpload(tasks[requests[j].by])
         /\ tasks[requests[j].by].dbError = Null
         /\ \E k \in 1..(j - 1) :
              /\ requests[k].kind = "insert_uploaded_leads"
              /\ requests[k].by = requests[j].by
         /\ Len(db.uploaded_leads) >= Len(tasks[requests[j].by].leads)
  /\ \A i \in 1..Len(tasks) :
       (IsUpload(tasks[i]) /\ (tasks[i].dbError # Null \/ tasks[i].leads = <<>>))
         => Sent(i, "post_start_campaign") = {}

\* the POST has been sent, after the insert stored the leads
C2_Witness ==
  \E j \in 1..Len(requests) :
    /\ requests[j].kind = "post_start_campaign"
    /\ tasks[requests[j].by].pc = "webhook"
    /\ requests[j].body.csv = The(tasks[requests[j].by].csvFile)
    /\ Len(db.uploaded_leads) = Len(tasks[requests[j].by].leads)
    /\ Len(db.uploaded_leads) > 0

\* C4: nothing is retried: an invocation of handleFileUpload sends at most
\* one insert and at most one webhook POST, an invocation of
\* triggerChannelsEngine (campaign and user present) exactly one POST, and
\* an invocation that failed has sent nothing after its failed request.
C4_NoRetry ==
  \A i \in 1..Len(tasks) :
    /\ IsUpload(tasks[i]) =>
         /\ Cardinality(Sent(i, "insert_uploaded_leads")) <= 1
         /\ Cardinality(Sent(i, "post_start_campaign")) <= 1
         /\ SentBy(i) = Sent(i, "insert_uploaded_leads")
                          \cup Sent(i, "post_start_campaign")
         /\ tasks[i].dbError = "error" =>
              /\ Cardinality(Sent(i, "insert_uploaded_leads")) = 1
              /\ Sent(i, "post_start_campaign") = {}
    /\ IsTrigger(tasks[i]) =>
         /\ Cardinality(Sent(i, "post_channels_engine")) = 1
         /\ Cardinality(SentBy(i)) = 1

\* an upload whose webhook POST came back not ok is over with one insert and
\* one POST sent
C4_Witness ==
  \E i \in 1..Len(tasks) :
    /\ IsUpload(tasks[i])
    /\ tasks[i].pc = "done"
    /\ tasks[i].response = "status"
    /\ Cardinality(Sent(i, "insert_uploaded_leads")) = 1
    /\ Cardinality(Sent(i, "post_start_campaign")) = 1

\* C5: triggerChannelsEngine ends with success = true exactly when the
\* response was ok (not ok and an exception both give success = false) and
\* changes nothing but the banner: not the campaign, the form data or the
\* CSV selection.
C5_TriggerBinary ==
  [][\A i \in 1..Len(tasks') :
       /\ (i > Len(tasks) /\ IsTrigger(tasks'[i]))
            => /\ editCampaign' = editCampaign
               /\ db' = db
       /\ (i <= Len(tasks) /\ IsTrigger(tasks[i]) /\ tasks[i].pc = "fetch"
             /\ tasks'[i].pc = "done")
            => /\ editCampaign'.uploadResult # None
               /\ The(editCampaign'.uploadResult).success =
                    (tasks'[i].response = "ok")
               /\ editCampaign' =
                    [editCampaign EXCEPT
                       !.uploadResult = editCampaign'.uploadResult]
               /\ db' = db
               /\ requests' = requests
    ]_vars

\* with a file selected, a trigger whose response was not ok ended in failure
C5_Witness ==
  \E i \in 1..Len(tasks) :
    /\ IsTrigger(tasks[i])
    /\ tasks[i].pc = "done"
    /\ tasks[i].response = "status"
    /\ editCampaign.uploadResult # None
    /\ ~The(editCampaign.uploadResult).success
    /\ editCampaign.csvFile # None
    /\ editCampaign.showPreview

(***************************************************************************)
(* Properties of UploadLeadsTab (checked under SpecLeads).                 *)
(***************************************************************************)
\* C3: every upload started from the Upload Leads tab whose insert succeeded
\* has sent, by the time its handler is over, exactly one start-campaign
\* POST carrying the user id, the campaign and the CSV file.
C3_UploadPostsWebhook ==
  \A i \in 1..Len(tasks) :
    (/\ tasks[i].handler = "UploadLeadsTab.handleFileUpload"
     /\ tasks[i].pc = "done"
     /\ tasks[i].dbError = Null)
      => /\ Cardinality(Sent(i, "post_start_campaign")) = 1
         /\ \A j \in Sent(i, "post_start_campaign") :
              /\ requests[j].body.user_id = tasks[i].user
              /\ requests[j].body.campaign = The(tasks[i].campaign)
              /\ requests[j].body.csv = The(tasks[i].csvFile)

\* the outcomes of a handler whose backend call returned an error
BackendErrors == {"db_error", "fetch_error", "delete_error"}

\* C6: a handler that ends because its backend call returned an error logs
\* the error and leaves a failure message on the screen.
C6_FailuresShown ==
  [][\A i \in 1..Len(tasks) :
       (/\ tasks[i].pc # "done"
        /\ tasks'[i].pc = "done"
        /\ tasks'[i].outcome \in BackendErrors)
         => /\ Len(console') = Len(console) + 1
            /\ uploadLeadsTab'.uploadResult # None
            /\ ~The(uploadLeadsTab'.uploadResult).success
    ]_vars

(***************************************************************************)
(* Properties of Save Changes and Publish (checked under SpecSave).        *)
(***************************************************************************)
\* the outcomes of a handler whose mutation the backend accepted
MutationDone ==
  {"saved", "published", "uploaded", "deleted", "created", "sequence_saved"}

\* the requests that fetch a component's data
FetchKinds ==
  {"select_campaign", "select_campaigns", "select_uploaded_leads",
   "select_campaign_sequences"}

\* C11: when a handler ends after a successful mutation, it has called its
\* component's fetch: the step that ends it sends a select request.
C11_RefetchAfterMutation ==
  [][\A i \in 1..Len(tasks) :
       (/\ tasks[i].pc # "done"
        /\ tasks'[i].pc = "done"
        /\ tasks'[i].outcome \in MutationDone)
         => /\ Len(requests') = Len(requests) + 1
            /\ requests'[Len(requests')].kind \in FetchKinds
    ]_vars

\* C13: when handleSubmit or handlePublish ends successfully, the status of
\* the local campaign record is the status stored for the campaign.
C13_LocalStatusSynced ==
  [][\A i \in 1..Len(tasks) :
       (/\ tasks[i].pc # "done"
        /\ tasks'[i].pc = "done"
        /\ tasks'[i].outcome \in {"saved", "published"})
         => /\ editCampaign'.campaign # None
            /\ \E k \in 1..Len(db'.campaigns) :
                 /\ db'.campaigns[k].id = C1
                 /\ db'.campaigns[k].status =
                      The(editCampaign'.campaign).status
    ]_vars

(***************************************************************************)
(* Properties of SequenceBuilder (C12 under SpecSteps, the others under    *)
(* SpecSeq).                                                               *)
(***************************************************************************)
\* C12: from the default single step, after any addStep, removeStep and
\* updateStep of a type, content or delay, the editor holds n >= 1 steps
\* numbered 1..n in list order (so a step is only ever removed from more
\* than one).
C12_StepsOrdered ==
  /\ Len(sequenceBuilder.steps) >= 1
  /\ \A k \in 1..Len(sequenceBuilder.steps) :
       sequenceBuilder.steps[k].step_number = k

\* the default step was removed from a longer list: an added step is now
\* first, renumbered 1, and an edited step follows it
C12_Witness ==
  /\ Len(sequenceBuilder.steps) = 2
  /\ sequenceBuilder.steps[1].message_type = "sms"
  /\ sequenceBuilder.steps[1].delay_hours = 24
  /\ sequenceBuilder.steps[1].step_number = 1
  /\ sequenceBuilder.steps[2].message_content = "hi"
  /\ sequenceBuilder.steps[2].delay_hours = 48
  /\ sequenceBuilder.steps[2].step_number = 2

\* C14: whatever campaigns are deleted and sequences saved, every
\* campaign_sequences row references a campaign that exists.
C14_SequencesReferenceCampaigns ==
  \A k \in 1..Len(db.campaign_sequences) :
    CampaignExists(db, db.campaign_sequences[k].campaign_id)

\* a sequence was saved for the campaign, then the campaign was deleted:
\* its rows went with it
C14_Witness ==
  /\ ~CampaignExists(db, C1)
  /\ db.campaign_sequences = <<>>
  /\ \E i \in 1..Len(tasks) :
       /\ tasks[i].handler = "SequenceBuilder.saveSequence"
       /\ tasks[i].outcome = "sequence_saved"
  /\ \E i \in 1..Len(tasks) :
       /\ tasks[i].handler = "Campaigns.handleDeleteCampaign"
       /\ tasks[i].outcome = "deleted"

\* C17: when saveSequence ends successfully, the rows stored for the
\* campaign are exactly the editor's current steps, none of the sequence
\* stored before remaining.
C17_SaveReplaces ==
  [][\A i \in 1..Len(tasks) :
       (/\ tasks[i].handler = "SequenceBuilder.saveSequence"
        /\ tasks[i].pc # "done"
        /\ tasks'[i].pc = "done"
        /\ tasks'[i].outcome = "sequence_saved")
         => StoredSequence(db', C1) =
              stepsToInsert(sequenceBuilder'.steps, C1)
    ]_vars

\* C18: when saveSequence ends in its error path, the rows stored for the
\* campaign are those stored when the save was started.
C18_FailedSaveKeepsRows ==
  [][\A i \in 1..Len(tasks) :
       (/\ tasks[i].handler = "SequenceBuilder.saveSequence"
        /\ tasks[i].pc # "done"
        /\ tasks'[i].pc = "done"
        /\ tasks'[i].outcome = "db_error")
         => StoredSequence(db', C1) = tasks[i].stored
    ]_vars

(***************************************************************************)
(* Properties of the list page and of deletion (C15 under SpecDeletes,     *)
(* C16 under SpecCampaigns).                                               *)
(***************************************************************************)
DeleteHandlers == {"Campaigns.handleDeleteCampaign", "UploadLeadsTab.deleteLead"}

\* the id a delete handler was called with, the request it sends and the
\* ids of the rows its page shows
DeleteTarget(t) ==
  IF t.handler = "UploadLeadsTab.deleteLead" THEN The(t.leadId)
  ELSE The(t.deleteId)

DeleteKind(t) ==
  IF t.handler = "UploadLeadsTab.deleteLead" THEN "delete_uploaded_lead"
  ELSE "delete_campaign"

ShownIds(t) ==
  IF t.handler = "UploadLeadsTab.deleteLead"
  THEN {uploadLeadsTab.existingLeads[k].id :
          k \in 1..Len(uploadLeadsTab.existingLeads)}
  ELSE {campaignsPage.campaigns[k].id : k \in 1..Len(campaignsPage.campaigns)}

IdsOf(rows) == {rows[k].id : k \in 1..Len(rows)}

RequestedIds(kind) ==
  {requests[j].body.id : j \in {q \in 1..Len(requests) : requests[q].kind = kind}}

\* C15: a press of a delete button (handleDeleteCampaign, deleteLead) that
\* the user confirms sends one delete request, for the id of the row
\* pressed; declined, it sends nothing; either way the lists shown and the
\* backend are as before the press. The backend loses only rows whose
\* delete was requested.
C15_DeleteOnlyConfirmed ==
  [][/\ \A i \in 1..Len(tasks') :
          (i > Len(tasks) /\ tasks'[i].handler \in DeleteHandlers) =>
            /\ DeleteTarget(tasks'[i]) \in ShownIds(tasks'[i])
            /\ campaignsPage' = campaignsPage
            /\ uploadLeadsTab' = uploadLeadsTab
            /\ db' = db
            /\ requests' =
                 IF tasks'[i].outcome = "declined" THEN requests
                 ELSE Append(requests,
                             Request(i, DeleteKind(tasks'[i]),
                                     [id |-> DeleteTarget(tasks'[i])]))
     /\ IdsOf(db.campaigns) \ IdsOf(db'.campaigns)
          \subseteq RequestedIds("delete_campaign")
     /\ IdsOf(db.uploaded_leads) \ IdsOf(db'.uploaded_leads)
          \subseteq RequestedIds("delete_uploaded_lead")
    ]_vars

\* on the list page one press was declined and another confirmed: the
\* campaign of the confirmed press is gone, the other one is there
C15_Witness ==
  /\ \E i \in 1..Len(tasks) :
       /\ tasks[i].handler = "Campaigns.handleDeleteCampaign"
       /\ tasks[i].outcome = "declined"
       /\ SentBy(i) = {}
  /\ \E i \in 1..Len(tasks) :
       /\ tasks[i].handler = "Campaigns.handleDeleteCampaign"
       /\ tasks[i].outcome = "deleted"
       /\ ~CampaignExists(db, The(tasks[i].deleteId))
  /\ Len(db.campaigns) = 1

\* C16: a successful handleCreateCampaign stores one campaign of the
\* current user with the form's values and status 'draft', resets the form
\* to its defaults and closes it; a failed one leaves the form, its values
\* and the list shown as they are; with no user nothing is sent.
C16_CreateCampaign ==
  [][/\ \A i \in 1..Len(tasks) :
          (/\ tasks[i].handler = "Campaigns.handleCreateCampaign"
           /\ tasks[i].pc = "insert"
           /\ tasks'[i].pc = "done")
            => IF tasks'[i].outcome = "created"
               THEN /\ Len(db'.campaigns) = Len(db.campaigns) + 1
                    /\ SubSeq(db'.campaigns, 1, Len(db.campaigns)) = db.campaigns
                    /\ LET row == db'.campaigns[Len(db'.campaigns)]
                       IN /\ row.user_id = tasks[i].user
                          /\ row.user_id # Null
                          /\ row.offer = The(tasks[i].formData).offer
                          /\ row.calendar_url = The(tasks[i].formData).calendar_url
                          /\ row.goal = The(tasks[i].formData).goal
                          /\ row.status = "draft"
                          /\ row.id \notin IdsOf(db.campaigns)
                    /\ campaignsPage'.formData = FormDefaults
                    /\ ~campaignsPage'.showCreateForm
               ELSE /\ campaignsPage' = campaignsPage
                    /\ db' = db
     /\ \A i \in 1..Len(tasks') :
          (i > Len(tasks) /\ tasks'[i].handler = "Campaigns.handleCreateCampaign")
            => /\ campaignsPage' = campaignsPage
               /\ db' = db
               /\ IF user = Null
                  THEN requests' = requests /\ tasks'[i].pc = "done"
                  ELSE /\ tasks'[i].formData = Some(campaignsPage.formData)
                       /\ requests' =
                            Append(requests,
                                   Request(i, "insert_campaign",
                                           [user_id |-> user]
                                             @@ campaignsPage.formData))
    ]_vars

\* a campaign with the offer typed in was created: it is stored as a draft
\* of the user, the form is closed and back to its defaults
C16_Witness ==
  \E i \in 1..Len(tasks) :
    /\ tasks[i].handler = "Campaigns.handleCreateCampaign"
    /\ tasks[i].outcome = "created"
    /\ Len(db.campaigns) = 3
    /\ db.campaigns[3].offer = "x"
    /\ db.campaigns[3].status = "draft"
    /\ db.campaigns[3].user_id = U1
    /\ campaignsPage.formData = FormDefaults
    /\ ~campaignsPage.showCreateForm

\* the outcomes of a handler that ran to its end without a failure
SucceededOutcomes == {"ok", "uploaded", "deleted", "created", "declined"}

\* no fetch and no mutation is outstanding, and none has failed
AllSettled ==
  \A i \in 1..Len(tasks) :
    tasks[i].pc = "done" /\ tasks[i].outcome \in SucceededOutcomes

\* C19: once every mutation and every fetch has completed successfully, the
\* list displayed by Campaigns, and by UploadLeadsTab, is the current user's
\* rows in the backend, whatever the order the responses arrived in.
C19_ListConverges ==
  (AllSettled /\ user # Null)
    => IF route = "/campaigns"
       THEN campaignsPage.campaigns = SelectCampaigns(db, user)
       ELSE uploadLeadsTab.existingLeads = SelectLeads(db, C1, user)

\* the columns a mapping names
MappedColumns(mapping) ==
  {mapping[key] : key \in DOMAIN mapping} \ {<<>>}

HeadersOf(p) == {p.headers[k] : k \in 1..Len(p.headers)}

\* C20: whenever UploadLeadsTab shows the preview, csvPreview is the preview
\* of the file held in csvFile, the file Upload will read, and columnMapping
\* names columns of that file.
C20_PreviewOfSelectedFile ==
  uploadLeadsTab.showPreview
    => /\ uploadLeadsTab.csvFile # None
       /\ uploadLeadsTab.csvPreview =
            Some(parseCSVForPreview(The(uploadLeadsTab.csvFile)))
       /\ MappedColumns(uploadLeadsTab.columnMapping)
            \subseteq HeadersOf(parseCSVForPreview(The(uploadLeadsTab.csvFile)))

\* C21: when a header of the file equals a field's key, case ignored, the
\* field is auto-mapped to a header that equals the key, whatever the other
\* headers are and wherever they stand.
C21_ExactMatchWins ==
  (stage = "preview")
    => \A key \in DbKeys :
         (\E i \in 1..Len(preview.headers) :
            ToLowerCase(preview.headers[i]) = KeyText(key))
           => /\ key \in DOMAIN autoMapping
              /\ ToLowerCase(autoMapping[key]) = KeyText(key)

\* C22: once fetchSequence has loaded the stored sequence, and after any
\* addStep and removeStep that follow, the step numbers the editor holds are
\* pairwise distinct.
C22_StepNumbersDistinct ==
  SequenceRendered
    => \A j, k \in 1..Len(sequenceBuilder.steps) :
         (j # k) => sequenceBuilder.steps[j].step_number
                      # sequenceBuilder.steps[k].step_number

\* C23: a mounted UploadLeadsTab whose user is available, from the mount or
\* only later, eventually shows its list: loading becomes false, whether the
\* fetch succeeds or fails.
C23_LoadingEnds ==
  (LeadsMounted /\ user # Null)
    ~> (~LeadsMounted \/ ~uploadLeadsTab.loading)

\* the handlers that set a busy flag
BusyHandlers ==
  {"UploadLeadsTab.handleFileUpload", "EditCampaign.handleSubmit",
   "EditCampaign.handlePublish", "SequenceBuilder.saveSequence"}

\* the busy flag a handler sets
BusyFlag(handler) ==
  CASE handler = "UploadLeadsTab.handleFileUpload" -> uploadLeadsTab.uploadLoading
    [] handler = "EditCampaign.handleSubmit"       -> editCampaign.saving
    [] handler = "EditCampaign.handlePublish"      -> editCampaign.publishing
    [] handler = "SequenceBuilder.saveSequence"    -> sequenceBuilder.saving

\* C24: a busy flag set by handleFileUpload (uploadLoading), handleSubmit or
\* saveSequence (saving) or handlePublish (publishing) is eventually false
\* again in the component that stays mounted, once the backend has answered:
\* on success, on a backend error, and on the exit taken when the CSV yields
\* no valid lead.
C24_BusyReleased ==
  /\ uploadLeadsTab.uploadLoading
       ~> (~uploadLeadsTab.uploadLoading \/ ~LeadsMounted)
  /\ editCampaign.saving ~> (~editCampaign.saving \/ ~EditMounted)
  /\ editCampaign.publishing ~> (~editCampaign.publishing \/ ~EditMounted)
  /\ sequenceBuilder.saving ~> ~sequenceBuilder.saving

\* an upload has taken the exit on no valid lead and the button is enabled
\* again
C24_Witness ==
  \E i \in 1..Len(tasks) :
    /\ tasks[i].handler = "UploadLeadsTab.handleFileUpload"
    /\ tasks[i].outcome = "no_leads"
    /\ ~uploadLeadsTab.uploadLoading
    /\ LeadsMounted

\* the four fields of UploadLeadsTab that hold the selection
Selection(st) ==
  [csvFile |-> st.csvFile, csvPreview |-> st.csvPreview,
   showPreview |-> st.showPreview, columnMapping |-> st.columnMapping]

NoSelection ==
  [csvFile |-> None, csvPreview |-> None, showPreview |-> FALSE,
   columnMapping |-> EmptyMapping]

\* C25: a step of UploadLeadsTab.handleFileUpload that ends it in failure (the
\* file not read, no valid lead, the insert refused) leaves csvFile,
\* csvPreview, showPreview and columnMapping as they are, stores nothing and
\* starts no fetch; the step that ends it in success stores the leads, resets
\* the four and calls fetchExistingLeads; no other step of it touches them.
C25_FailedUploadKeepsSelection ==
  [][\A i \in 1..Len(tasks) :
       (/\ tasks[i].handler = "UploadLeadsTab.handleFileUpload"
        /\ tasks'[i] # tasks[i])
         => IF tasks'[i].outcome = "uploaded"
            THEN /\ Selection(uploadLeadsTab') = NoSelection
                 /\ Len(db'.uploaded_leads)
                      = Len(db.uploaded_leads) + Len(tasks[i].leads)
                 /\ Len(tasks[i].leads) > 0
                 /\ Len(tasks') = Len(tasks) + 1
                 /\ tasks'[Len(tasks')].handler
                      = "UploadLeadsTab.fetchExistingLeads"
                 /\ tasks'[Len(tasks')].pc = "select"
                 /\ requests' = FetchRequested(requests, Len(tasks'))
            ELSE /\ Selection(uploadLeadsTab') = Selection(uploadLeadsTab)
                 /\ db' = db
                 /\ Len(tasks') = Len(tasks)
                 /\ \A k \in (Len(requests) + 1)..Len(requests') :
                      requests'[k].kind # "select_uploaded_leads"
                 /\ (tasks'[i].outcome = "no_leads")
                      => (requests' = requests /\ Sent(i, "insert_uploaded_leads") = {})
    ]_vars

\* an upload was refused by the backend: the file, its preview and the
\* mapping are still there and nothing was stored
C25_Witness ==
  \E i \in 1..Len(tasks) :
    /\ tasks[i].handler = "UploadLeadsTab.handleFileUpload"
    /\ tasks[i].outcome = "db_error"
    /\ uploadLeadsTab.showPreview
    /\ uploadLeadsTab.csvFile = tasks[i].csvFile
    /\ uploadLeadsTab.columnMapping = tasks[i].columnMapping
    /\ uploadLeadsTab.csvPreview # None
    /\ db.uploaded_leads = <<ExistingLead>>

=============================================================================
